---- MODULE Spec2Model ----
(***************************************************************************)
(* A model of the Namecheap API client (namecheap/base.py and the command  *)
(* methods built on it).  A public call is one behaviour fragment: the     *)
(* caller invokes a method, the method issues HTTP GETs through            *)
(* _make_request, and the call ends with a returned value or a raised      *)
(* exception.  The remote service is the environment: every HTTP GET draws *)
(* its transport outcome from a finite set of outcomes.                    *)
(*                                                                         *)
(* Python values are tagged records [t |-> tag, v |-> payload]; a Python   *)
(* dict is an ordered sequence of <<key, value>> pairs (insertion order).  *)
(* A "text" is a sequence of atoms, each atom a literal chunk or a whole   *)
(* "{key}" placeholder; it is used for the strings that pass through the   *)
(* token substitution of _parse_response.                                  *)
(***************************************************************************)
EXTENDS Integers, Sequences, FiniteSets, TLC

VARIABLES
    client,     \* the configuration fixed by BaseClient.__init__
    pc,         \* position of the public call in progress
    call,       \* the public call: method and arguments
    requests,   \* the _make_request invocations of the call, in order: the
                \* arguments, the GET sent, what the GET ended as, the outcome
    logs,       \* the log records emitted by the call
    local,      \* local variables a multi-request method carries between GETs
    outcome     \* how the call ended: a returned value or a raised exception

vars == <<client, pc, call, requests, logs, local, outcome>>

-----------------------------------------------------------------------------
(* Python values *)

None == [t |-> "none"]

Str(s) == [t |-> "str", v |-> s]

Bool(b) == [t |-> "bool", v |-> b]

IntVal(n) == [t |-> "int", v |-> n]

Text(atoms) == [t |-> "text", v |-> atoms]

Dict(items) == [t |-> "dict", v |-> items]

List(xs) == [t |-> "list", v |-> xs]

EmptyDict == Dict(<<>>)

Keys(d) == {d.v[i][1] : i \in 1..Len(d.v)}

HasKey(d, k) == k \in Keys(d)

Index(d, k) == CHOOSE i \in 1..Len(d.v) : d.v[i][1] = k

Item(d, k) == d.v[Index(d, k)][2]

\* dict.get(k, default)
Get(d, k, default) == IF HasKey(d, k) THEN Item(d, k) ELSE default

\* d[k] = val : an existing key keeps its position, a new key goes last
SetItem(d, k, val) ==
    IF HasKey(d, k)
    THEN Dict([d.v EXCEPT ![Index(d, k)] = <<k, val>>])
    ELSE Dict(Append(d.v, <<k, val>>))

RECURSIVE UpdateFrom(_, _, _)
UpdateFrom(d, other, i) ==
    IF i > Len(other.v) THEN d
    ELSE UpdateFrom(SetItem(d, other.v[i][1], other.v[i][2]), other, i + 1)

\* d.update(other)
Update(d, other) == UpdateFrom(d, other, 1)

\* truth value of a Python object
Truthy(x) ==
    CASE x.t = "none" -> FALSE
      [] x.t = "bool" -> x.v
      [] x.t = "int" -> x.v # 0
      [] x.t = "str" -> x.v # ""
      [] x.t \in {"text", "dict", "list"} -> Len(x.v) > 0
      [] OTHER -> TRUE

-----------------------------------------------------------------------------
(* Outcomes of a call: a returned value or a raised exception *)

Return(val) == [kind |-> "return", value |-> val]

Raise(e) == [kind |-> "raise", exc |-> e]

NoOutcome == [kind |-> "none"]

\* an exception of a Python built-in or library type
Native(type, msg) == [type |-> type, message |-> msg]

NamecheapException(code, message, explanation, fix, raw_response) ==
    [type |-> "NamecheapException", code |-> code, message |-> message,
     explanation |-> explanation, fix |-> fix, raw_response |-> raw_response]

-----------------------------------------------------------------------------
(* XML documents and xmltodict.parse *)

Elem(tag, attrs, kids, text) ==
    [tag |-> tag, attrs |-> attrs, kids |-> kids, text |-> text]

\* xmltodict's push_data: a repeated tag collapses into a list
push_data(items, key, data) ==
    IF \E i \in 1..Len(items) : items[i][1] = key
    THEN LET i == CHOOSE j \in 1..Len(items) : items[j][1] = key
             old == items[i][2]
         IN [items EXCEPT ![i] =
                <<key, IF old.t = "list" THEN List(Append(old.v, data))
                       ELSE List(<<old, data>>)>>]
    ELSE Append(items, <<key, data>>)

\* the attributes of e, as xmltodict keys them (attr_prefix "@")
AttrItems(e) ==
    [j \in 1..Len(e.attrs) |-> <<"@" \o e.attrs[j][1], Str(e.attrs[j][2])>>]

RECURSIVE element_value(_, _, _)
\* the value xmltodict gives element e; the children from index i on are
\* still to be pushed onto items
element_value(e, items, i) ==
    IF i <= Len(e.kids)
    THEN element_value(e,
            push_data(items, e.kids[i].tag,
                      element_value(e.kids[i], AttrItems(e.kids[i]), 1)),
            i + 1)
    ELSE IF Len(items) = 0
         THEN (IF e.text = "" THEN None ELSE Str(e.text))
         ELSE Dict(IF e.text = "" THEN items
                   ELSE Append(items, <<"#text", Str(e.text)>>))

\* xmltodict.parse(text) of a well-formed document
xmltodict_parse(text) ==
    Dict(<< <<text.root.tag, element_value(text.root, AttrItems(text.root), 1)>> >>)

-----------------------------------------------------------------------------
(* Strings that carry "{key}" tokens *)

Range(s) == {s[i] : i \in 1..Len(s)}

\* "{" + k + "}"
Placeholder(k) == "{" \o k \o "}"

Digit(d) == CASE d = 0 -> "0" [] d = 1 -> "1" [] d = 2 -> "2" [] d = 3 -> "3"
              [] d = 4 -> "4" [] d = 5 -> "5" [] d = 6 -> "6" [] d = 7 -> "7"
              [] d = 8 -> "8" [] OTHER -> "9"

RECURSIVE IntText(_)
\* the decimal digits of a natural number, one atom per digit
IntText(n) == IF n < 10 THEN <<Digit(n)>> ELSE Append(IntText(n \div 10), Digit(n % 10))

\* str(v), as a text
str(val) ==
    CASE val.t = "text" -> val.v
      [] val.t = "int" -> IntText(val.v)
      [] val.t = "str" -> <<val.v>>
      [] val.t = "bool" -> (IF val.v THEN <<"True">> ELSE <<"False">>)
      [] OTHER -> <<"None">>

RECURSIVE replace(_, _, _)
\* s.replace(old, new): every occurrence of the atom old becomes the text new
replace(s, old, new) ==
    IF s = <<>> THEN <<>>
    ELSE (IF Head(s) = old THEN new ELSE <<Head(s)>>) \o replace(Tail(s), old, new)

RECURSIVE format_with_context(_, _, _)
\* the loop over context.items(): one replace per key, in dict order, each
\* applied to the result of the one before
format_with_context(s, context, i) ==
    IF i > Len(context.v) THEN s
    ELSE LET placeholder == Placeholder(context.v[i][1])
         IN format_with_context(
                IF s # <<>> /\ placeholder \in Range(s)
                THEN replace(s, placeholder, str(context.v[i][2]))
                ELSE s,
                context, i + 1)

-----------------------------------------------------------------------------
(* BaseClient._parse_response *)

TypeName(x) ==
    CASE x.t = "none" -> "NoneType"
      [] x.t = "text" -> "str"
      [] OTHER -> x.t

\* x.get(...) on an object that is no dict
NoGet(x) ==
    Raise(Native("AttributeError",
                 "'" \o TypeName(x) \o "' object has no attribute 'get'"))

\* "if context:" and the loop it guards
formatted(s, context) ==
    Text(IF Truthy(context) THEN format_with_context(s, context, 1) ELSE s)

\* the explanation and fix looked up for error_num
error_lookup(error_num, error_codes, context) ==
    IF Truthy(error_codes) /\ HasKey(error_codes, error_num)
    THEN [explanation |-> formatted(
                Get(Item(error_codes, error_num), "explanation", Text(<<>>)).v, context),
          fix |-> formatted(
                Get(Item(error_codes, error_num), "fix", Text(<<>>)).v, context)]
    ELSE [explanation |-> None, fix |-> None]

\* the exception raised for the error entry read
raise_error(error, response, looked) ==
    Raise(NamecheapException(Get(error, "@Number", Str("UNKNOWN_ERROR")).v,
                             Get(error, "#text", Str("Unknown error occurred")).v,
                             looked.explanation, looked.fix, response.text))

\* from the error entry to the raise
read_error(error, response, error_codes, context) ==
    IF error.t # "dict" THEN NoGet(error)
    ELSE raise_error(error, response,
            error_lookup(Get(error, "@Number", Str("UNKNOWN_ERROR")).v,
                         error_codes, context))

\* error = errors.get("Error", {}), its first element if it is a list
first_error(first) == IF first.t = "list" THEN first.v[1] ELSE first

\* read_errors with an Errors element that lists nothing taken as success
read_errors_lenient(errors, api_response, response, error_codes, context) ==
    IF errors.t # "dict" THEN Return(Get(api_response, "CommandResponse", EmptyDict))
    ELSE read_error(first_error(Get(errors, "Error", EmptyDict)),
                    response, error_codes, context)

\* from the Errors element to the raise
read_errors(errors, api_response, response, error_codes, context) ==
    IF errors.t # "dict" THEN NoGet(errors)
    ELSE read_error(first_error(Get(errors, "Error", EmptyDict)),
                    response, error_codes, context)

\* the branch taken when the root Status is ERROR
raise_api_error(api_response, response, error_codes, context) ==
    read_errors(Get(api_response, "Errors", EmptyDict), api_response,
                response, error_codes, context)

\* the statements that read api_response: the status, then the error or the
\* CommandResponse
read_api_response(api_response, response, error_codes, context) ==
    IF api_response.t # "dict" THEN NoGet(api_response)
    ELSE IF Get(api_response, "@Status", Str("UNKNOWN")) = Str("ERROR")
         THEN raise_api_error(api_response, response, error_codes, context)
         ELSE Return(Get(api_response, "CommandResponse", EmptyDict))

\* the body of the try block
parse_body(response, error_codes, context) ==
    IF ~response.text.wf
    THEN Raise(Native("ExpatError", "not well-formed (invalid token)"))
    ELSE read_api_response(
            Get(xmltodict_parse(response.text), "ApiResponse", EmptyDict),
            response, error_codes, context)

\* the except clause: an exception that is no NamecheapException is wrapped
except_parse(r, response) ==
    IF r.kind = "raise" /\ r.exc.type # "NamecheapException"
    THEN Raise(NamecheapException("PARSE_ERROR",
                 "Failed to parse API response: " \o r.exc.message,
                 None, None, response.text))
    ELSE r

parse_response(response, error_codes, context) ==
    except_parse(parse_body(response, error_codes, context), response)

-----------------------------------------------------------------------------
(* BaseClient: construction, logging, transport *)

SANDBOX_API_URL == "https://api.sandbox.namecheap.com/xml.response"

PRODUCTION_API_URL == "https://api.namecheap.com/xml.response"

\* BaseClient.__init__ with the four credentials given
NewClient(api_user, api_key, username, client_ip, sandbox, debug) ==
    [api_user |-> api_user, api_key |-> api_key, username |-> username,
     client_ip |-> client_ip,
     base_url |-> IF sandbox THEN SANDBOX_API_URL ELSE PRODUCTION_API_URL,
     debug |-> debug]

get_base_params(cl) ==
    Dict(<< <<"ApiUser", Str(cl.api_user)>>, <<"ApiKey", Str(cl.api_key)>>,
            <<"UserName", Str(cl.username)>>, <<"ClientIp", Str(cl.client_ip)>> >>)

RECURSIVE IntStr(_)
\* the decimal numeral of a natural number
IntStr(n) == IF n < 10 THEN Digit(n) ELSE IntStr(n \div 10) \o Digit(n % 10)

\* the numeric value of a logging level name (unknown names log at INFO)
LevelNo(level) ==
    CASE level = "DEBUG" -> 10
      [] level = "WARNING" -> 30
      [] level = "ERROR" -> 40
      [] level = "CRITICAL" -> 50
      [] OTHER -> 20

\* the data of a log call with the values of ApiKey and Password hidden;
\* sorted(data.items()) makes the result a function of the key set
log_data(data) ==
    IF Truthy(data) /\ data.t = "dict"
    THEN [k \in Keys(data) |->
            IF k \in {"ApiKey", "Password"} /\ Item(data, k).t = "str"
            THEN Str("******") ELSE Item(data, k)]
    ELSE <<>>

\* the records BaseClient.log hands to handlers: none for a DEBUG call of a
\* client that is not in debug mode, none below the logger's level
log(cl, where, message, level, data) ==
    IF LevelNo(level) = LevelNo("DEBUG") /\ ~cl.debug THEN <<>>
    ELSE IF LevelNo(level) < (IF cl.debug THEN LevelNo("DEBUG") ELSE LevelNo("ERROR"))
         THEN <<>>
         ELSE << [where |-> where, level |-> level, message |-> message,
                  data |-> log_data(data)] >>

RequestExceptionTypes ==
    {"RequestException", "ConnectionError", "Timeout", "HTTPError", "TooManyRedirects"}

\* response.raise_for_status(): an HTTPError for a 4xx or 5xx status
raise_for_status(response) ==
    IF 400 <= response.status_code /\ response.status_code < 600
    THEN Raise(Native("HTTPError", IntStr(response.status_code) \o " Error"))
    ELSE Return(None)

\* the outcome of requests.get: an exception of the transport or a response
NetRaise(type, msg) == [kind |-> "raise", exc |-> Native(type, msg)]

NetResponse(status_code, text) ==
    [kind |-> "response",
     response |-> [status_code |-> status_code, text |-> text]]

-----------------------------------------------------------------------------
(* BaseClient._make_request *)

\* the query string: base parameters, then Command, then the caller's
request_params(cl, command, params) ==
    LET base == SetItem(get_base_params(cl), "Command", Str(command))
    IN IF Truthy(params) THEN Update(base, params) ELSE base

\* the try block: the GET, the status check, the parse
try_request(response_or_exc, error_codes, context) ==
    IF response_or_exc.kind = "raise" THEN Raise(response_or_exc.exc)
    ELSE IF raise_for_status(response_or_exc.response).kind = "raise"
         THEN raise_for_status(response_or_exc.response)
         ELSE parse_response(response_or_exc.response, error_codes, context)

\* except_request catching requests.ConnectionError alone
except_request_narrow(r) ==
    IF r.kind = "raise" /\ r.exc.type = "ConnectionError"
    THEN Raise(NamecheapException("CONNECTION_ERROR",
                 "Failed to connect to Namecheap API: " \o r.exc.message,
                 None, None, None))
    ELSE r

\* the except clauses: NamecheapException is re-raised, a RequestException
\* becomes CONNECTION_ERROR, anything else propagates
except_request(r) ==
    IF r.kind = "raise" /\ r.exc.type # "NamecheapException"
                        /\ r.exc.type \in RequestExceptionTypes
    THEN Raise(NamecheapException("CONNECTION_ERROR",
                 "Failed to connect to Namecheap API: " \o r.exc.message,
                 None, None, None))
    ELSE r

\* the log records of one _make_request
request_logs(cl, command, params, net, r) ==
    log(cl, "API.REQUEST",
        "Sending request to " \o cl.base_url \o " with command " \o command,
        "DEBUG", request_params(cl, command, params))
    \o (IF net.kind = "response"
        THEN log(cl, "API.RESPONSE",
                 "Received response with status " \o IntStr(net.response.status_code),
                 "DEBUG",
                 Dict(<< <<"Content-Length", [t |-> "len", v |-> net.response.text]>>,
                         <<"Preview", [t |-> "preview", v |-> net.response.text]>> >>))
        ELSE <<>>)
    \o (IF r.kind = "raise" /\ r.exc.type \in RequestExceptionTypes
        THEN log(cl, "API.ERROR", "HTTP request failed: " \o r.exc.message, "ERROR", None)
        ELSE <<>>)

\* one _make_request whose GET ends as net and whose try block ends as r:
\* the arguments, the GET sent (url and query), the log records emitted and
\* the outcome handed to the caller
invocation(cl, command, params, error_codes, context, net, r) ==
    [command |-> command, params |-> params, error_codes |-> error_codes,
     context |-> context,
     url |-> cl.base_url, query |-> request_params(cl, command, params),
     net |-> net,
     logs |-> request_logs(cl, command, params, net, r),
     outcome |-> except_request(r)]

make_request(cl, command, params, error_codes, context, net) ==
    invocation(cl, command, params, error_codes, context, net,
               try_request(net, error_codes,
                           IF Truthy(context) THEN context ELSE EmptyDict))

-----------------------------------------------------------------------------
(* The environment: response bodies the service can send *)

XMLNS == "http://api.namecheap.com/xml.response"

INVALID_KEY_MESSAGE == "API Key is invalid or API access has not been enabled"

Leaf(tag, text) == Elem(tag, <<>>, <<>>, text)

ErrorElem(number, text) == Elem("Error", << <<"Number", number>> >>, <<>>, text)

\* <ApiResponse Status=... xmlns=...> kids, Warnings, Server </ApiResponse>
Envelope(status, kids) ==
    Elem("ApiResponse", << <<"Status", status>>, <<"xmlns", XMLNS>> >>,
         kids \o << Leaf("Warnings", ""), Leaf("Server", "SERVER-NAME") >>, "")

ErrorEnvelope(errors) == Envelope("ERROR", << Elem("Errors", <<>>, errors, "") >>)

XmlText(wf, root) == [wf |-> wf, root |-> root]

\* ERROR envelopes, one per shape of the Errors element
ErrKnown == XmlText(TRUE, ErrorEnvelope(<< ErrorElem("2019166", "Domain not found") >>))

ErrUnlisted == XmlText(TRUE, ErrorEnvelope(<< ErrorElem("9999999", "Provider failure") >>))

ErrInvalidKey == XmlText(TRUE, ErrorEnvelope(<< ErrorElem("1011102", INVALID_KEY_MESSAGE) >>))

\* the body of tests.py test_error_response: the Error element is closed by </e>
ErrInvalidKeyMalformed ==
    XmlText(FALSE, ErrorEnvelope(<< ErrorElem("1011102", INVALID_KEY_MESSAGE) >>))

ErrSeveral ==
    XmlText(TRUE, ErrorEnvelope(<< ErrorElem("2019166", "Domain not found"),
                                  ErrorElem("9999999", "Provider failure") >>))

ErrEmptyErrors == XmlText(TRUE, ErrorEnvelope(<<>>))

ErrNoErrors == XmlText(TRUE, Envelope("ERROR", <<>>))

ErrTextOnly == XmlText(TRUE, ErrorEnvelope(<< Leaf("Error", "Something failed") >>))

ErrNoNumber ==
    XmlText(TRUE, ErrorEnvelope(
        << Elem("Error", << <<"Source", "provider">> >>, <<>>, "Something failed") >>))

ErrNoText == XmlText(TRUE, ErrorEnvelope(<< ErrorElem("2019166", "") >>))

ErrEmptyNumber == XmlText(TRUE, ErrorEnvelope(<< ErrorElem("", "Something failed") >>))

ErrorTexts ==
    {ErrKnown, ErrUnlisted, ErrInvalidKey, ErrInvalidKeyMalformed, ErrSeveral,
     ErrEmptyErrors, ErrNoErrors, ErrTextOnly, ErrNoNumber, ErrNoText, ErrEmptyNumber}

\* bodies that are no API envelope
NotXml == XmlText(FALSE, Leaf("html", "Bad Gateway"))

HtmlPage == XmlText(TRUE, Elem("html", <<>>, << Leaf("body", "Service unavailable") >>, ""))

NoStatus ==
    XmlText(TRUE, Elem("ApiResponse", << <<"xmlns", XMLNS>> >>,
                       << Leaf("Server", "SERVER-NAME") >>, ""))

TextOnlyRoot == XmlText(TRUE, Leaf("ApiResponse", "maintenance"))

EmptyRoot == XmlText(TRUE, Leaf("ApiResponse", ""))

NonEnvelopeTexts == {NotXml, HtmlPage, NoStatus, TextOnlyRoot, EmptyRoot}

CommandResponse(type, kids) == Elem("CommandResponse", << <<"Type", type>> >>, kids, "")

OkEnvelope(type, kids) ==
    Envelope("OK", << Leaf("Errors", ""), CommandResponse(type, kids) >>)

DomainCheckResult(domain, available) ==
    Elem("DomainCheckResult",
         << <<"Domain", domain>>, <<"Available", available>> >>, <<>>, "")

OkCheckOne ==
    XmlText(TRUE, OkEnvelope("namecheap.domains.check",
                             << DomainCheckResult("example.com", "false") >>))

OkNoCommandResponse == XmlText(TRUE, Envelope("OK", << Leaf("Errors", "") >>))

OkEmptyCommandResponse ==
    XmlText(TRUE, Envelope("OK", << Leaf("Errors", ""), Leaf("CommandResponse", "") >>))

-----------------------------------------------------------------------------
(* Error catalogs of the command methods *)

Entry(explanation, fix) ==
    Dict(<< <<"explanation", Text(explanation)>>, <<"fix", Text(fix)>> >>)

\* DnsAPI.get_hosts: error_codes
GET_HOSTS_ERRORS ==
    Dict(<<
      <<"2050166", Entry(<<"Failed to retrieve DNS host records">>,
            <<"Verify that '", "{domain}", "' exists in your Namecheap account">>)>>,
      <<"2019166", Entry(<<"Failed to retrieve DNS host records">>,
            <<"Verify that '", "{domain}", "' exists in your Namecheap account">>)>>,
      <<"UNKNOWN_ERROR", Entry(<<"Failed to retrieve DNS host records">>,
            <<"Verify that '", "{domain}",
              "' exists in your Namecheap account and is using Namecheap DNS servers">>)>>
    >>)

\* DomainsBaseAPI.check: error_codes
CHECK_ERRORS ==
    Dict(<<
      <<"2030166", Entry(<<"Invalid request syntax">>,
            <<"Check that domain names are properly formatted">>)>>,
      <<"2030180", Entry(<<"TLD is not supported">>,
            <<"This TLD is not supported for availability check">>)>>,
      <<"2030283", Entry(<<"Too many domain names provided">>,
            <<"Maximum of 50 domains can be checked at once">>)>>,
      <<"UNKNOWN_ERROR", Entry(<<"Failed to check domain availability">>,
            <<"Check the domain formats and try again">>)>>
    >>)

COMMON_NS_ERRORS ==
    Dict(<<
      <<"2019166", Entry(<<"Domain not found">>,
            <<"Verify the domain exists and is spelled correctly">>)>>,
      <<"2016166", Entry(<<"Domain is not associated with your account">>,
            <<"Check that the domain is registered with your Namecheap account">>)>>,
      <<"2011177", Entry(<<"Nameserver is invalid">>,
            <<"Ensure the nameserver has proper format (e.g., ns1.example.com)">>)>>,
      <<"UNKNOWN_ERROR", Entry(<<"Operation failed">>,
            <<"Verify that '", "{domain_name}",
              "' exists and all parameters are correct">>)>>
    >>)

\* NsAPI.delete: error_codes, {**COMMON_NS_ERRORS, ...}
NS_DELETE_ERRORS ==
    Update(COMMON_NS_ERRORS, Dict(<<
      <<"3031510", Entry(<<"Error deleting nameserver">>,
            <<"There was a problem with the nameserver deletion request">>)>>,
      <<"3031511", Entry(<<"Nameserver does not exist">>,
            <<"The specified nameserver does not exist for this domain">>)>>,
      <<"UNKNOWN_ERROR", Entry(<<"Nameserver deletion failed">>,
            <<"Verify that '", "{domain_name}", "' exists and nameserver '",
              "{nameserver}", "' is valid">>)>>
    >>))

-----------------------------------------------------------------------------
(* BaseClient.normalize_api_response and BaseClient._normalize_item *)

\* the element and attribute names the service's documents use
Names ==
    {"Status", "xmlns", "Type", "Number", "Source", "Domain", "Available",
     "IsPremiumName", "PremiumRegistrationPrice", "IcannFee", "EmailType",
     "IsUsingOurDNS", "HostId", "Name", "Address", "MXPref", "TTL", "IsActive",
     "IsSuccess", "Created"}

\* key.startswith('@')
StartsWithAt(key) == \E n \in Names : key = "@" \o n

\* key[1:] of a key that starts with '@'
DropAt(key) == CHOOSE n \in Names : key = "@" \o n

\* key.startswith("Is")
StartsWithIs(key) == key \in {"IsPremiumName", "IsUsingOurDNS", "IsActive", "IsSuccess"}

\* value.lower(), for the strings that occur as values
lower(s) ==
    CASE s \in {"True", "TRUE"} -> "true"
      [] s \in {"False", "FALSE"} -> "false"
      [] s = "Yes" -> "yes"
      [] s = "A" -> "a"
      [] s = "MX" -> "mx"
      [] s = "CNAME" -> "cname"
      [] s = "MXE" -> "mxe"
      [] OTHER -> s

\* value.upper(), for the strings that occur as record types
upper(s) ==
    CASE s = "mx" -> "MX"
      [] s = "a" -> "A"
      [] s = "cname" -> "CNAME"
      [] s = "register" -> "REGISTER"
      [] s = "year" -> "YEAR"
      [] OTHER -> s

IsStr(x) == x.t \in {"str", "text"}

\* x.<attr> on an object that has no such attribute
NoAttr(x, attr) ==
    Raise(Native("AttributeError",
                 "'" \o TypeName(x) \o "' object has no attribute '" \o attr \o "'"))

\* the name a field is stored under: its mapped name, else its key without '@'
clean_key(key, field_mapping) ==
    IF HasKey(field_mapping, key) THEN Item(field_mapping, key).v
    ELSE IF StartsWithAt(key) THEN DropAt(key) ELSE key

RECURSIVE clean_keys(_, _, _, _)
\* the first loop: every field stored under its cleaned or mapped name
clean_keys(item, field_mapping, result, i) ==
    IF i > Len(item.v) THEN result
    ELSE clean_keys(item, field_mapping,
                    SetItem(result, clean_key(item.v[i][1], field_mapping), item.v[i][2]),
                    i + 1)

\* the second loop without its isinstance(value, str) under the Is-prefix test
coerce_boolean_any(key, value, boolean_fields) ==
    IF StartsWithIs(key) \/ key \in Range(boolean_fields)
    THEN Bool(IsStr(value) /\ lower(value.v) \in {"true", "yes", "enabled", "1"})
    ELSE IF IsStr(value) /\ lower(value.v) \in {"true", "false"}
         THEN Bool(lower(value.v) = "true")
         ELSE value

\* the second loop, for one field
coerce_boolean(key, value, boolean_fields) ==
    IF StartsWithIs(key) \/ key \in Range(boolean_fields)
    THEN (IF IsStr(value)
          THEN Bool(lower(value.v) \in {"true", "yes", "enabled", "1"})
          ELSE value)
    ELSE IF IsStr(value) /\ lower(value.v) \in {"true", "false"}
         THEN Bool(lower(value.v) = "true")
         ELSE value

\* datetime.datetime.strptime over the four formats tried: the format that
\* accepts the string, 0 when none does
DateFormat(s) ==
    CASE s = "2025-01-31T10:00:00" -> 1
      [] s = "2025-01-31 10:00:00" -> 2
      [] s = "01/31/2025" -> 3
      [] s = "2025-01-31" -> 4
      [] OTHER -> 0

\* the third loop, for one field
parse_datetime(key, value, datetime_fields) ==
    IF key \in Range(datetime_fields) /\ IsStr(value) /\ DateFormat(value.v) # 0
    THEN [t |-> "datetime", v |-> "2025-01-31",
          time |-> IF DateFormat(value.v) < 3 THEN "10:00:00" ELSE "00:00:00"]
    ELSE value

\* the second and third loop over result
converted(result, boolean_fields, datetime_fields) ==
    Dict([i \in 1..Len(result.v) |->
            <<result.v[i][1],
              parse_datetime(result.v[i][1],
                  coerce_boolean(result.v[i][1], result.v[i][2], boolean_fields),
                  datetime_fields)>>])

normalize_item(item, field_mapping, boolean_fields, datetime_fields) ==
    IF item.t # "dict" THEN NoAttr(item, "items")
    ELSE Return(converted(clean_keys(item, field_mapping, EmptyDict, 1),
                          boolean_fields, datetime_fields))

\* pairs <<a, b>> of strings of the model with a a substring of b
SubstringPairs == {<<"host", "ghost">>}

\* "key in data", where it evaluates
Contains(data, key) ==
    CASE data.t = "dict" -> HasKey(data, key)
      [] data.t = "list" -> Str(key) \in Range(data.v)
      [] data.t = "str" -> key = data.v \/ <<key, data.v>> \in SubstringPairs
      [] OTHER -> FALSE

\* the object a failed path lookup or an absent response is replaced by
empty_result(return_type) == IF return_type = "list" THEN List(<<>>) ELSE EmptyDict

RECURSIVE extract(_, _, _, _)
\* the loop over result_key.split('.'): the data found, or the early return
extract(data, path, i, return_type) ==
    IF i > Len(path) THEN [kind |-> "data", value |-> data]
    ELSE IF data.t \notin {"dict", "list", "str"}
         THEN Raise(Native("TypeError",
                "argument of type '" \o TypeName(data) \o "' is not iterable"))
         ELSE IF ~Contains(data, path[i]) THEN Return(empty_result(return_type))
              ELSE IF data.t # "dict"
                   THEN Raise(Native("TypeError",
                          (IF data.t = "str" THEN "string" ELSE "list")
                              \o " indices must be integers"))
                   ELSE extract(Item(data, path[i]), path, i + 1, return_type)

RECURSIVE normalize_items(_, _, _, _, _, _)
\* normalized_items.append(normalized), unless _normalize_item raised
append_item(normalized, data, field_mapping, boolean_fields, datetime_fields, done, i) ==
    IF normalized.kind = "raise" THEN normalized
    ELSE normalize_items(data, field_mapping, boolean_fields, datetime_fields,
                         Append(done, normalized.value), i + 1)

\* the loop over the items of a list, from index i on
normalize_items(data, field_mapping, boolean_fields, datetime_fields, done, i) ==
    IF i > Len(data) THEN Return(List(done))
    ELSE append_item(
            normalize_item(data[i], field_mapping, boolean_fields, datetime_fields),
            data, field_mapping, boolean_fields, datetime_fields, done, i)

\* "Handle single item vs list", for what the result_key loop ended as
normalize_found(found, field_mapping, boolean_fields, datetime_fields, return_type) ==
    IF found.kind # "data" THEN found
    ELSE IF return_type = "list"
         THEN normalize_items(
                IF found.value.t = "list" THEN found.value.v
                ELSE IF Truthy(found.value) THEN <<found.value>> ELSE <<>>,
                field_mapping, boolean_fields, datetime_fields, <<>>, 1)
         ELSE normalize_item(found.value, field_mapping, boolean_fields, datetime_fields)

\* result_key is given as its split('.') (none for no result_key)
normalize_api_response(response, result_key, field_mapping, boolean_fields, datetime_fields, return_type) ==
    IF response = None THEN Return(empty_result(return_type))
    ELSE normalize_found(extract(response, result_key, 1, return_type),
            IF Truthy(field_mapping) THEN field_mapping ELSE EmptyDict,
            boolean_fields, datetime_fields, return_type)

-----------------------------------------------------------------------------
(* Domain names: a name is held as its labels *)

RECURSIVE Join(_, _)
\* sep.join(parts)
Join(parts, sep) ==
    IF parts = <<>> THEN ""
    ELSE IF Len(parts) = 1 THEN parts[1]
         ELSE parts[1] \o sep \o Join(Tail(parts), sep)

\* the name as the caller writes it
Dotted(labels) == Join(labels, ".")

\* _split_domain_name(Dotted(labels)): at the first dot
split_domain_name(labels) == [sld |-> labels[1], tld |-> Join(Tail(labels), ".")]

-----------------------------------------------------------------------------
(* The command methods: DnsAPI, DomainsBaseAPI, TransferAPI *)

COMMON_DNS_ERRORS ==
    Dict(<<
      <<"2019166", Entry(<<"Domain not found or incorrect domain format">>,
            <<"Verify the domain name exists and is spelled correctly.">>)>>,
      <<"2016166", Entry(<<"Domain is not associated with your account">>,
            <<"Ensure this domain is registered and active in your Namecheap account.">>)>>,
      <<"2013166", Entry(<<"Domain is not active">>,
            <<"Check that the domain is active in your Namecheap account (not expired or pending)">>)>>,
      <<"3031510", Entry(<<"Enom error when ErrorCount is not 0">>,
            <<"Check the specific error message from the provider and address accordingly. This often indicates a service issue.">>)>>,
      <<"3050900", Entry(<<"Unknown error from provider">>,
            <<"Contact Namecheap support for assistance with this error.">>)>>,
      <<"2030288", Entry(<<"Domain is not using Namecheap DNS servers">>,
            <<"Set the domain to use Namecheap's default DNS servers before using this API method">>)>>,
      <<"UNKNOWN_ERROR", Entry(<<"Failed to retrieve DNS host records">>,
            <<"Verify that the domain exists in your Namecheap account and your API credentials have sufficient permissions. If the problem persists, try enabling debug mode for more details.">>)>>
    >>)

\* DnsAPI.set_hosts: error_codes, {**COMMON_DNS_ERRORS, ...}; a key written
\* twice keeps the later entry
SET_HOSTS_ERRORS ==
    Update(COMMON_DNS_ERRORS, Dict(<<
      <<"2015280", Entry(<<"Invalid record type">>,
            <<"Check that all DNS record types are valid (A, AAAA, CNAME, MX, TXT, URL, URL301, FRAME)">>)>>,
      <<"2015166", Entry(<<"Failed to update domain">>,
            <<"Verify the domain is registered and DNS settings can be modified">>)>>,
      <<"2016166", Entry(<<"Domain is not using Namecheap DNS servers">>,
            <<"Set the domain to use Namecheap's DNS servers before setting host records">>)>>,
      <<"4023330", Entry(<<"Unable to process request">>,
            <<"Check that the request is properly formatted and all required fields are included">>)>>,
      <<"2015280", Entry(<<"Invalid DNS host record">>,
            <<"Check that the host record parameters are valid">>)>>,
      <<"2015166", Entry(<<"Failed to update domain">>,
            <<"Verify the domain is active and can be modified">>)>>,
      <<"UNKNOWN_ERROR", Entry(<<"Failed to set DNS host records">>,
            <<"Verify that '", "{domain}",
              "' exists in your account and is using Namecheap DNS servers">>)>>
    >>))

\* what a command method did: the _make_request invocations, the outcome
Did(rs, out) == [requests |-> rs, outcome |-> out]

\* a method that returns the normalized form of what _make_request returns
normalized(r, result_key, return_type) ==
    Did(<<r>>, IF r.outcome.kind = "raise" THEN r.outcome
               ELSE normalize_api_response(r.outcome.value, result_key,
                                           None, <<>>, <<>>, return_type))

\* get_hosts issuing its GET a second time
get_hosts_again(cl, domain, net) ==
    LET names == split_domain_name(domain)
        r == make_request(cl, "namecheap.domains.dns.getHosts",
                Dict(<< <<"SLD", Str(names.sld)>>, <<"TLD", Str(names.tld)>> >>),
                GET_HOSTS_ERRORS,
                Dict(<< <<"domain", Text(<<Dotted(domain)>>)>> >>), net)
    IN Did(<<r, r>>, normalized(r, <<"DomainDNSGetHostsResult", "host">>, "list").outcome)

\* DnsAPI.get_hosts(domain)
get_hosts(cl, domain, net) ==
    LET names == split_domain_name(domain)
        r == make_request(cl, "namecheap.domains.dns.getHosts",
                Dict(<< <<"SLD", Str(names.sld)>>, <<"TLD", Str(names.tld)>> >>),
                GET_HOSTS_ERRORS,
                Dict(<< <<"domain", Text(<<Dotted(domain)>>)>> >>), net)
    IN normalized(r, <<"DomainDNSGetHostsResult", "host">>, "list")

RECURSIVE host_params_zero_based(_, _, _)
\* the loop numbering the hosts as enumerate does, from 0
host_params_zero_based(params, hosts, idx) ==
    IF idx > Len(hosts) THEN Return(params)
    ELSE LET host == hosts[idx]
             n == IntStr(idx - 1)
         IN IF host.t # "dict" THEN NoGet(host)
            ELSE LET required ==
                        SetItem(SetItem(SetItem(SetItem(params,
                            "HostName" \o n, Get(host, "Name", Str("@"))),
                            "RecordType" \o n, Get(host, "Type", Str("A"))),
                            "Address" \o n, Get(host, "Address", Str(""))),
                            "TTL" \o n, Get(host, "TTL", Str("1800")))
                     type == Get(host, "Type", Str(""))
                 IN IF ~IsStr(type) THEN NoAttr(type, "upper")
                    ELSE host_params_zero_based(
                            IF upper(type.v) = "MX" \/ HasKey(host, "MXPref")
                            THEN SetItem(required, "MXPref" \o n,
                                         Get(host, "MXPref", Str("10")))
                            ELSE required,
                            hosts, idx + 1)

RECURSIVE host_params(_, _, _)
\* the loop over enumerate(hosts): the parameters with those of the hosts
\* from index idx on added, or the exception a host raises
host_params(params, hosts, idx) ==
    IF idx > Len(hosts) THEN Return(params)
    ELSE LET host == hosts[idx]
             n == IntStr(idx)
         IN IF host.t # "dict" THEN NoGet(host)
            ELSE LET required ==
                        SetItem(SetItem(SetItem(SetItem(params,
                            "HostName" \o n, Get(host, "Name", Str("@"))),
                            "RecordType" \o n, Get(host, "Type", Str("A"))),
                            "Address" \o n, Get(host, "Address", Str(""))),
                            "TTL" \o n, Get(host, "TTL", Str("1800")))
                     type == Get(host, "Type", Str(""))
                 IN IF ~IsStr(type) THEN NoAttr(type, "upper")
                    ELSE host_params(
                            IF upper(type.v) = "MX" \/ HasKey(host, "MXPref")
                            THEN SetItem(required, "MXPref" \o n,
                                         Get(host, "MXPref", Str("10")))
                            ELSE required,
                            hosts, idx + 1)

\* "Make the API request" and "Get the result", unless the loop raised
send_hosts(cl, domain_name, params, net) ==
    IF params.kind = "raise" THEN Did(<<>>, params)
    ELSE normalized(
            make_request(cl, "namecheap.domains.dns.setHosts", params.value,
                SET_HOSTS_ERRORS,
                Dict(<< <<"domain", Text(<<Dotted(domain_name)>>)>> >>), net),
            <<"DomainDNSSetHostsResult">>, "dict")

\* DnsAPI.set_hosts(domain_name, hosts)
set_hosts(cl, domain_name, hosts, net) ==
    send_hosts(cl, domain_name,
        host_params(Dict(<< <<"SLD", Str(split_domain_name(domain_name).sld)>>,
                            <<"TLD", Str(split_domain_name(domain_name).tld)>> >>),
                    hosts.v, 1),
        net)

\* DnsAPI.set_custom: error_codes
SET_CUSTOM_ERRORS ==
    Update(COMMON_DNS_ERRORS, Dict(<<
      <<"2016166", Entry(<<"Domain not found or access denied">>,
            <<"Verify the domain exists and is registered with your Namecheap account">>)>>,
      <<"2015166", Entry(<<"Failed to update domain">>,
            <<"This may be a temporary issue or the domain may be locked">>)>>,
      <<"2011146", Entry(<<"Invalid nameserver format">>,
            <<"Nameservers must be valid hostnames (e.g., ns1.example.com)">>)>>,
      <<"2011147", Entry(<<"Insufficient nameservers">>,
            <<"At least 2 nameservers are required">>)>>,
      <<"2011148", Entry(<<"Too many nameservers">>,
            <<"Maximum of 12 nameservers allowed">>)>>,
      <<"2011149", Entry(<<"Duplicate nameserver entries">>,
            <<"Each nameserver must be unique">>)>>,
      <<"UNKNOWN_ERROR", Entry(<<"Failed to set custom DNS servers">>,
            <<"Verify that '", "{domain_name}", "' exists in your Namecheap account">>)>>
    >>))

RECURSIVE nameserver_params(_, _, _)
\* the loop over enumerate(nameservers), from index i on
nameserver_params(params, nameservers, i) ==
    IF i > Len(nameservers) THEN params
    ELSE nameserver_params(
            SetItem(params, "Nameserver" \o IntStr(i), Str(nameservers[i])),
            nameservers, i + 1)

\* the request of set_custom and the normalization of its answer
send_custom(cl, domain_name, nameservers, net) ==
    normalized(
        make_request(cl, "namecheap.domains.dns.setCustom",
            nameserver_params(
                Dict(<< <<"SLD", Str(split_domain_name(domain_name).sld)>>,
                        <<"TLD", Str(split_domain_name(domain_name).tld)>> >>),
                nameservers, 1),
            SET_CUSTOM_ERRORS,
            Dict(<< <<"domain_name", Text(<<Dotted(domain_name)>>)>> >>), net),
        <<"DomainDNSSetCustomResult">>, "dict")

\* set_custom without its test of the upper limit
set_custom_uncapped(cl, domain_name, nameservers, net) ==
    IF Len(nameservers) < 2
    THEN Did(<<>>, Raise(Native("ValueError", "At least 2 nameservers are required")))
    ELSE send_custom(cl, domain_name, nameservers, net)

\* DnsAPI.set_custom(domain_name, nameservers)
set_custom(cl, domain_name, nameservers, net) ==
    IF Len(nameservers) < 2
    THEN Did(<<>>, Raise(Native("ValueError", "At least 2 nameservers are required")))
    ELSE IF Len(nameservers) > 12
         THEN Did(<<>>, Raise(Native("ValueError", "Maximum of 12 nameservers allowed")))
         ELSE send_custom(cl, domain_name, nameservers, net)

\* a method that returns what _make_request returns
raw(r) == Did(<<r>>, r.outcome)

\* check passing on what _make_request returns
check_raw(cl, domains, net) ==
    IF domains = <<>> THEN Did(<<>>, Return(List(<<>>)))
    ELSE raw(make_request(cl, "namecheap.domains.check",
                Dict(<< <<"DomainList",
                          Str(Join([i \in 1..Len(domains) |-> Dotted(domains[i])], ","))>> >>),
                CHECK_ERRORS, None, net))

\* DomainsBaseAPI.check(domains)
check(cl, domains, net) ==
    IF domains = <<>> THEN Did(<<>>, Return(List(<<>>)))
    ELSE normalized(
            make_request(cl, "namecheap.domains.check",
                Dict(<< <<"DomainList",
                          Str(Join([i \in 1..Len(domains) |-> Dotted(domains[i])], ","))>> >>),
                CHECK_ERRORS, None, net),
            <<"DomainCheckResult">>, "list")

COMMON_USER_ERRORS ==
    Dict(<<
      <<"2019103", Entry(<<"Username not found">>,
            <<"Verify the username exists and is spelled correctly">>)>>,
      <<"2017166", Entry(<<"User is disabled or locked">>,
            <<"Contact Namecheap support to resolve account access issues">>)>>,
      <<"2010335", Entry(<<"Invalid password">>,
            <<"Check that the password is correct">>)>>,
      <<"UNKNOWN_ERROR", Entry(<<"User operation failed">>,
            <<"Verify all parameters are correct and try again">>)>>
    >>)

\* UsersAPI.change_password: error_codes
CHANGE_PASSWORD_ERRORS ==
    Update(COMMON_USER_ERRORS, Dict(<<
      <<"2010302", Entry(<<"OldPassword is missing">>, <<"Provide the current password">>)>>,
      <<"4022335", Entry(<<"Unable to change password">>,
            <<"Ensure the old password is correct and the new password meets requirements">>)>>,
      <<"5050900", Entry(<<"Unhandled exception occurred">>,
            <<"Try again later or contact Namecheap support">>)>>,
      <<"UNKNOWN_ERROR", Entry(<<"Failed to change password">>,
            <<"Verify both passwords are correct and try again">>)>>
    >>))

\* UsersAPI.change_password(old_password, new_password)
change_password(cl, old_password, new_password, net) ==
    raw(make_request(cl, "namecheap.users.changePassword",
            Dict(<< <<"OldPassword", Str(old_password)>>,
                    <<"NewPassword", Str(new_password)>> >>),
            CHANGE_PASSWORD_ERRORS, EmptyDict, net))

\* params[key] = value, under "if value:"
set_if(params, key, value) == IF Truthy(value) THEN SetItem(params, key, value) ELSE params

\* TransferAPI.create(domain_name, years, epp_code, promotion_code, **kwargs)
transfer_create(cl, domain_name, years, epp_code, promotion_code, kwargs, net) ==
    raw(make_request(cl, "namecheap.domains.transfer.create",
            Update(set_if(set_if(Dict(<< <<"DomainName", Str(Dotted(domain_name))>>,
                                         <<"Years", IntVal(years)>> >>),
                                 "EPPCode", epp_code),
                          "PromotionCode", promotion_code),
                   kwargs),
            None, None, net))

-----------------------------------------------------------------------------
(* EnhancedDnsAPI: update_record, delete_record, set_a_records *)

\* "Extract existing records": the host records read out of what get_hosts
\* returned, or the exception the subscripts raise
existing_records(result) ==
    IF ~Contains(result, "DomainDNSGetHostsResult") THEN Return(List(<<>>))
    ELSE IF result.t # "dict"
         THEN Raise(Native("TypeError", "list indices must be integers"))
         ELSE LET inner == Item(result, "DomainDNSGetHostsResult")
              IN IF inner.t \notin {"dict", "list", "str"}
                 THEN Raise(Native("TypeError", "argument of type '"
                            \o TypeName(inner) \o "' is not iterable"))
                 ELSE IF ~Contains(inner, "host") THEN Return(List(<<>>))
                      ELSE IF inner.t # "dict"
                           THEN Raise(Native("TypeError", "indices must be integers"))
                           ELSE LET host_records == Item(inner, "host")
                                IN Return(IF host_records.t = "list" THEN host_records
                                          ELSE List(<<host_records>>))

\* the record the three operations write for a record they keep
kept(host_record) ==
    Dict(<< <<"Name", Get(host_record, "Name", Str(""))>>,
            <<"Type", Get(host_record, "Type", Str(""))>>,
            <<"Address", Get(host_record, "Address", Str(""))>>,
            <<"MXPref", Get(host_record, "MXPref", Str("10"))>>,
            <<"TTL", Get(host_record, "TTL", Str("1800"))>> >>)

new_record(host, record_type, value, ttl) ==
    Dict(<< <<"Name", Str(host)>>, <<"Type", Str(record_type)>>,
            <<"Address", Str(value)>>, <<"TTL", Str(IntStr(ttl))>> >>)

matches(host_record, host, record_type) ==
    /\ Get(host_record, "Name", Str("")) = Str(host)
    /\ Get(host_record, "Type", Str("")) = Str(record_type)

RECURSIVE updated_hosts(_, _, _, _, _, _, _)
\* update_record's loop over host_records, from index i on
updated_hosts(host_records, host, record_type, value, ttl, priority, i) ==
    IF i > Len(host_records) THEN <<>>
    ELSE LET host_record == host_records[i]
             rest == updated_hosts(host_records, host, record_type, value, ttl,
                                   priority, i + 1)
         IN IF host_record.t # "dict" THEN rest
            ELSE IF matches(host_record, host, record_type)
                 THEN LET rec == new_record(host, record_type, value, ttl)
                      IN << IF record_type = "MX" /\ priority # None
                            THEN SetItem(rec, "MXPref", Str(IntStr(priority.v)))
                            ELSE IF HasKey(host_record, "MXPref")
                                    /\ Truthy(Item(host_record, "MXPref"))
                                 THEN SetItem(rec, "MXPref", Item(host_record, "MXPref"))
                                 ELSE rec >> \o rest
                 ELSE <<kept(host_record)>> \o rest

\* the hosts update_record passes to set_hosts
update_record_hosts(host_records, host, record_type, value, ttl, priority) ==
    LET new_hosts == updated_hosts(host_records, host, record_type, value, ttl, priority, 1)
        found == \E i \in 1..Len(host_records) :
                    host_records[i].t = "dict" /\ matches(host_records[i], host, record_type)
        rec == new_record(host, record_type, value, ttl)
    IN IF found THEN new_hosts
       ELSE Append(new_hosts,
                IF record_type = "MX"
                THEN SetItem(rec, "MXPref",
                        Str(IntStr(IF priority # None THEN priority.v ELSE 10)))
                ELSE rec)

RECURSIVE delete_record_hosts(_, _, _, _, _)
\* the hosts delete_record passes to set_hosts, from index i on
delete_record_hosts(host_records, host, record_type, value, i) ==
    IF i > Len(host_records) THEN <<>>
    ELSE LET host_record == host_records[i]
             rest == delete_record_hosts(host_records, host, record_type, value, i + 1)
         IN IF host_record.t # "dict" THEN rest
            ELSE IF /\ matches(host_record, host, record_type)
                    /\ (value = None \/ Get(host_record, "Address", Str("")) = value)
                 THEN rest
                 ELSE <<kept(host_record)>> \o rest

RECURSIVE other_than_a_records(_, _)
\* set_a_records' loop: every record but the A records of @ and www
other_than_a_records(host_records, i) ==
    IF i > Len(host_records) THEN <<>>
    ELSE LET host_record == host_records[i]
             rest == other_than_a_records(host_records, i + 1)
         IN IF host_record.t # "dict" THEN rest
            ELSE IF /\ Get(host_record, "Name", Str("")) \in {Str("@"), Str("www")}
                    /\ Get(host_record, "Type", Str("")) = Str("A")
                 THEN rest
                 ELSE <<kept(host_record)>> \o rest

\* the hosts set_a_records passes to set_hosts
set_a_records_hosts(host_records, ip_address) ==
    other_than_a_records(host_records, 1)
        \o << new_record("@", "A", ip_address, 1800),
              new_record("www", "A", ip_address, 1800) >>

-----------------------------------------------------------------------------
(* UsersAPI.get_pricing and EnhancedDomainsAPI: check_with_pricing *)

\* UsersAPI.get_pricing: error_codes
GET_PRICING_ERRORS ==
    Update(COMMON_USER_ERRORS, Dict(<<
      <<"2011170", Entry(<<"PromotionCode is invalid">>,
            <<"Verify the promotion code is valid and not expired">>)>>,
      <<"2011298", Entry(<<"ProductType is invalid">>,
            <<"Use one of the supported product types: DOMAIN, SSLCERTIFICATE, WHOISGUARD">>)>>,
      <<"UNKNOWN_ERROR", Entry(<<"Failed to get pricing information">>,
            <<"Verify that all parameters are valid and try again">>)>>
    >>))

PricingActions == {"REGISTER", "RENEW", "REACTIVATE", "TRANSFER", "WHOISGUARD"}

\* UsersAPI.get_pricing(product_type, product_category, None, action_name,
\* product_name) with product_name a string
get_pricing(cl, product_type, product_category, action_name, product_name, net) ==
    IF product_type \notin {"DOMAIN", "SSLCERTIFICATE", "WHOISGUARD"}
    THEN Did(<<>>, Raise(Native("ValueError", "product_type must be one of the valid types")))
    ELSE IF product_category # "" /\ product_category \notin PricingActions
    THEN Did(<<>>, Raise(Native("ValueError", "product_category must be one of the valid categories")))
    ELSE IF action_name # "" /\ action_name \notin PricingActions
    THEN Did(<<>>, Raise(Native("ValueError", "action_name must be one of the valid actions")))
    ELSE raw(make_request(cl, "namecheap.users.getPricing",
            set_if(set_if(set_if(Dict(<< <<"ProductType", Str(product_type)>> >>),
                                 "ProductCategory", Str(product_category)),
                          "ActionName", Str(action_name)),
                   "ProductName", Str(product_name)),
            GET_PRICING_ERRORS,
            Dict(<< <<"product_type", Text(<<product_type>>)>> >>), net))

\* a float, held as its number of ten-thousandths
Float(x) == [t |-> "float", v |-> x]

\* float(value)
to_float(value) ==
    IF value.t = "float" THEN Return(value)
    ELSE IF value.t = "int" THEN Return(Float(value.v * 10000))
    ELSE IF value.t = "bool" THEN Return(Float(IF value.v THEN 10000 ELSE 0))
    ELSE IF ~IsStr(value)
    THEN Raise(Native("TypeError", "float() argument must be a string or a real number"))
    ELSE CASE value.v \in {"0", "0.0"} -> Return(Float(0))
           [] value.v = "10.98" -> Return(Float(109800))
           [] value.v = "8.88" -> Return(Float(88800))
           [] value.v \in {"12.5000", "12.5"} -> Return(Float(125000))
           [] OTHER -> Raise(Native("ValueError", "could not convert string to float"))

\* "key in data" where data may be a value that is not iterable
NotIterable(data) ==
    Raise(Native("TypeError", "argument of type '" \o TypeName(data) \o "' is not iterable"))

\* attr.lstrip('@').lower() == "price"
IsPriceAttr(attr) == attr \in {"@Price", "Price", "@price", "price", "@PRICE", "PRICE"}

\* the first key of price_data that names the price, none when there is none
price_attr(price_data) ==
    IF \E i \in 1..Len(price_data.v) : IsPriceAttr(price_data.v[i][1])
    THEN Str(price_data.v[CHOOSE i \in 1..Len(price_data.v) :
                /\ IsPriceAttr(price_data.v[i][1])
                /\ \A j \in 1..(i - 1) : ~IsPriceAttr(price_data.v[j][1])][1])
    ELSE None

\* x.get(key, "").upper() == name
NamedUpper(x, name) == upper(Get(x, "@Name", Str("")).v) = name

\* x.get(key, "").lower() == tld_name.lower()
NamedLower(x, name) == lower(Get(x, "@Name", Str("")).v) = lower(name)

RECURSIVE one_year_price(_, _)
\* the loop over prices, from index i on
one_year_price(prices, i) ==
    IF i > Len(prices) THEN Return(Float(0))
    ELSE IF prices[i].t # "dict" THEN NoGet(prices[i])
    ELSE IF /\ Get(prices[i], "@Duration", None) = Str("1")
            /\ upper(Get(prices[i], "@DurationType", Str("")).v) = "YEAR"
            /\ price_attr(prices[i]) # None
            /\ to_float(Item(prices[i], price_attr(prices[i]).v)).kind = "return"
         THEN to_float(Item(prices[i], price_attr(prices[i]).v))
         ELSE one_year_price(prices, i + 1)

\* the REGISTER category of product_category, None when there is none
register_category(x) ==
    IF x.t = "list"
    THEN (IF \E i \in 1..Len(x.v) : x.v[i].t = "dict" /\ NamedUpper(x.v[i], "REGISTER")
          THEN x.v[CHOOSE i \in 1..Len(x.v) :
                    /\ x.v[i].t = "dict" /\ NamedUpper(x.v[i], "REGISTER")
                    /\ \A j \in 1..(i - 1) :
                            ~(x.v[j].t = "dict" /\ NamedUpper(x.v[j], "REGISTER"))]
          ELSE None)
    ELSE IF x.t = "dict" /\ NamedUpper(x, "REGISTER") THEN x ELSE None

\* the product of the TLD in product, None when there is none
tld_product(x, tld_name) ==
    IF x.t = "list"
    THEN (IF \E i \in 1..Len(x.v) : x.v[i].t = "dict" /\ NamedLower(x.v[i], tld_name)
          THEN x.v[CHOOSE i \in 1..Len(x.v) :
                    /\ x.v[i].t = "dict" /\ NamedLower(x.v[i], tld_name)
                    /\ \A j \in 1..(i - 1) :
                            ~(x.v[j].t = "dict" /\ NamedLower(x.v[j], tld_name))]
          ELSE None)
    ELSE IF x.t = "dict" /\ NamedLower(x, tld_name) THEN x ELSE None

\* from tld_product to the price
price_of_product(product) ==
    IF ~Truthy(product) \/ ~HasKey(product, "Price") THEN Return(Float(0))
    ELSE one_year_price(IF Item(product, "Price").t = "list"
                        THEN Item(product, "Price").v
                        ELSE << Item(product, "Price") >>, 1)

\* from register_category to the price
price_of_category(category, tld_name) ==
    IF ~Truthy(category) \/ ~HasKey(category, "Product") THEN Return(Float(0))
    ELSE price_of_product(tld_product(Item(category, "Product"), tld_name))

\* from result = response["UserGetPricingResult"] to the price
price_of_result(result, tld_name) ==
    IF result.t \notin {"dict", "list", "str"} THEN NotIterable(result)
    ELSE IF ~Contains(result, "ProductType") THEN Return(Float(0))
    ELSE IF result.t # "dict"
    THEN Raise(Native("TypeError", "indices must be integers"))
    ELSE IF \/ Item(result, "ProductType").t # "dict"
            \/ ~HasKey(Item(result, "ProductType"), "ProductCategory")
    THEN Return(Float(0))
    ELSE price_of_category(
            register_category(Item(Item(result, "ProductType"), "ProductCategory")),
            tld_name)

\* EnhancedDomainsAPI._extract_price_from_response(response, tld_name)
extract_price_from_response(response, tld_name) ==
    IF response.t \notin {"dict", "list", "str"} THEN NotIterable(response)
    ELSE IF ~Contains(response, "UserGetPricingResult") THEN Return(Float(0))
    ELSE IF response.t # "dict"
    THEN Raise(Native("TypeError", "indices must be integers"))
    ELSE price_of_result(Item(response, "UserGetPricingResult"), tld_name)

\* tldextract.extract(domain).suffix, for the names the service reports
suffix(domain) ==
    CASE domain \in {"example.com", "shop.com"} -> "com"
      [] domain = "example.net" -> "net"
      [] domain = "example.org" -> "org"
      [] domain = "shop.example.co.uk" -> "co.uk"
      [] OTHER -> ""

\* "." in domain
HasDot(domain) == suffix(domain) # ""

IsDict(x) == x.t = "dict"

\* domain_info.get("Available", False), as a condition
IsAvailable(domain_info) ==
    domain_info.t = "dict" /\ Truthy(Get(domain_info, "Available", Bool(FALSE)))

\* the first loop of check_with_pricing without its test of Available
available_tlds_all(domain_results) ==
    {suffix(Get(domain_info, "Domain", Str("")).v) :
        domain_info \in {x \in Range(domain_results.v) : IsDict(x)}}

\* the first loop of check_with_pricing: the suffixes of the available
\* domains, each without its leading dot
available_tlds(domain_results) ==
    {suffix(Get(domain_info, "Domain", Str("")).v) :
        domain_info \in {x \in Range(domain_results.v) : IsAvailable(x)}}

\* the records of _get_tld_pricing for one TLD whose lookup ended as price;
\* guarded: the except clause of the loop is there
pricing_logs(cl, tld_name, response, price, guarded) ==
    (IF response.kind = "return" /\ response.value.t = "dict"
            /\ HasKey(response.value, "UserGetPricingResult")
     THEN log(cl, "PRICING.DEBUG",
              <<"Raw pricing data for ", tld_name, ": ",
                Item(response.value, "UserGetPricingResult")>>, "DEBUG", None)
     ELSE <<>>)
    \o (IF price.kind = "raise"
        THEN IF guarded
             THEN log(cl, "PRICING.ERROR",
                      <<"Error getting pricing for ", "." \o tld_name>>, "ERROR",
                      Dict(<< <<"Error", Str(price.exc.message)>> >>))
             ELSE <<>>
        ELSE IF price.value.v > 0
             THEN log(cl, "PRICING.INFO",
                      <<"Found price for ", "." \o tld_name, ": $", price.value>>,
                      "DEBUG", None)
             ELSE <<>>)

\* pricing_info after the lookup for tld ended as price
priced(pricing_info, tld_name, price) ==
    IF price.kind = "return" /\ price.value.v > 0
    THEN SetItem(pricing_info, "." \o tld_name, price.value)
    ELSE pricing_info

\* price, or the exception get_pricing raised
price_or_raised(g, tld_name) ==
    IF g.outcome.kind = "raise" THEN g.outcome
    ELSE extract_price_from_response(g.outcome.value, tld_name)

\* one round of the loop of _get_tld_pricing, get_pricing having ended as g
\* and the round as price; escaped is the exception that leaves the loop
lookup_done(cl, tld_name, g, price, guarded) ==
    [requests |-> g.requests,
     logs |-> pricing_logs(cl, tld_name, g.outcome, price, guarded),
     price |-> price,
     escaped |-> IF price.kind = "raise" /\ ~guarded THEN price ELSE NoOutcome]

lookup_priced(cl, tld_name, g, guarded) ==
    lookup_done(cl, tld_name, g, price_or_raised(g, tld_name), guarded)

\* the round of the loop without its except clause
lookup_unguarded(cl, tld_name, net) ==
    lookup_priced(cl, tld_name,
        get_pricing(cl, "DOMAIN", "REGISTER", "REGISTER", tld_name, net), FALSE)

\* one round of the loop of _get_tld_pricing, for the TLD tld_name
lookup(cl, tld_name, net) ==
    lookup_priced(cl, tld_name,
        get_pricing(cl, "DOMAIN", "REGISTER", "REGISTER", tld_name, net), TRUE)

\* premium_price of _determine_domain_price
premium_price(domain_info) ==
    IF HasKey(domain_info, "PremiumRegistrationPrice")
          /\ to_float(Item(domain_info, "PremiumRegistrationPrice")).kind = "return"
    THEN to_float(Item(domain_info, "PremiumRegistrationPrice")).value
    ELSE Float(0)

\* _determine_domain_price preferring the price of the suffix
determine_domain_price_regular_first(domain, domain_info, pricing_info) ==
    IF Get(pricing_info, "." \o suffix(domain), Float(0)).v > 0
    THEN Get(pricing_info, "." \o suffix(domain), Float(0))
    ELSE IF Truthy(Get(domain_info, "IsPremiumName", Bool(FALSE)))
            /\ premium_price(domain_info).v > 0
         THEN premium_price(domain_info)
         ELSE Float(0)

\* EnhancedDomainsAPI._determine_domain_price(domain, domain_info, pricing_info)
determine_domain_price(domain, domain_info, pricing_info) ==
    IF Truthy(Get(domain_info, "IsPremiumName", Bool(FALSE)))
          /\ premium_price(domain_info).v > 0
    THEN premium_price(domain_info)
    ELSE IF Get(pricing_info, "." \o suffix(domain), Float(0)).v > 0
         THEN Get(pricing_info, "." \o suffix(domain), Float(0))
         ELSE Float(0)

\* the records _determine_domain_price emits
price_logs(cl, domain, domain_info, pricing_info) ==
    log(cl, "PRICING.DEBUG",
        <<"Domain: ", domain, ", Regular: $",
          Get(pricing_info, "." \o suffix(domain), Float(0)),
          ", Premium: $", premium_price(domain_info),
          ", IsPremium: ", Get(domain_info, "IsPremiumName", Bool(FALSE))>>,
        "DEBUG", None)
    \o (IF determine_domain_price(domain, domain_info, pricing_info).v > 0 THEN <<>>
        ELSE log(cl, "PRICING.WARNING",
                 <<"No price found for ", domain, " with TLD ", "." \o suffix(domain)>>,
                 "WARNING", None))

\* the domain's price is looked for: it is available and its name has a dot
IsPriced(domain_info) ==
    /\ Truthy(Get(domain_info, "Available", Bool(FALSE)))
    /\ HasDot(Get(domain_info, "Domain", Str("")).v)

\* enhanced_info of one record of the availability check
enhanced_info(domain_info, pricing_info) ==
    Dict(<< <<"Domain", Get(domain_info, "Domain", Str(""))>>,
            <<"Available", Get(domain_info, "Available", Bool(FALSE))>>,
            <<"IsPremiumName", Get(domain_info, "IsPremiumName", Bool(FALSE))>>,
            <<"Price", IF IsPriced(domain_info)
                       THEN determine_domain_price(Get(domain_info, "Domain", Str("")).v,
                                                   domain_info, pricing_info)
                       ELSE Float(0)>> >>)

\* "Build the final result": the mapping check_with_pricing returns
enhanced_result(domain_results, pricing_info) ==
    Dict(<< <<"DomainCheckResult",
              List([i \in 1..Len(SelectSeq(domain_results.v, IsDict)) |->
                        enhanced_info(SelectSeq(domain_results.v, IsDict)[i],
                                      pricing_info)])>> >>)

RECURSIVE result_logs(_, _, _, _)
\* the records the second loop of check_with_pricing emits, from index i on
result_logs(cl, domain_results, pricing_info, i) ==
    IF i > Len(domain_results.v) THEN <<>>
    ELSE (IF IsDict(domain_results.v[i]) /\ IsPriced(domain_results.v[i])
          THEN price_logs(cl, Get(domain_results.v[i], "Domain", Str("")).v,
                          domain_results.v[i], pricing_info)
          ELSE <<>>)
         \o result_logs(cl, domain_results, pricing_info, i + 1)

-----------------------------------------------------------------------------
(* Inputs of the calls *)

\* largest integer a caller passes as a context value
MaxContextInt == 12

Clients ==
    {NewClient("test_user", "test_key", "test_user", "127.0.0.1", sandbox, debug) :
        sandbox \in BOOLEAN, debug \in BOOLEAN}

Commands == {"namecheap.domains.check", "namecheap.domains.ns.delete"}

\* caller parameter mappings of a direct _make_request; the last two carry a
\* key that _get_base_params and the Command assignment also set
ParamSets ==
    {None,
     Dict(<< <<"DomainList", Str("example.com")>> >>),
     Dict(<< <<"SLD", Str("example")>>, <<"Command", Str("namecheap.users.getBalances")>> >>),
     Dict(<< <<"ApiKey", Str("other_key")>>, <<"TLD", Str("com")>> >>)}

Catalogs == {None, GET_HOSTS_ERRORS, CHECK_ERRORS, NS_DELETE_ERRORS}

\* context mappings: absent, one key, two keys, a value that itself reads
\* like the token of a later key, an integer value
Contexts ==
    {None,
     Dict(<< <<"domain", Text(<<"example.com">>)>> >>),
     Dict(<< <<"domain_name", Text(<<"example.com">>)>>,
             <<"nameserver", Text(<<"ns1.example.com">>)>> >>),
     Dict(<< <<"domain_name", Text(<<"{nameserver}">>)>>,
             <<"nameserver", Text(<<"ns1.example.com">>)>> >>)}
    \cup {Dict(<< <<"domain", IntVal(n)>> >>) : n \in {MaxContextInt}}

StatusCodes == {200, 304, 404, 500}

AnyTexts ==
    ErrorTexts \cup NonEnvelopeTexts
        \cup {OkCheckOne, OkNoCommandResponse, OkEmptyCommandResponse}

\* what one requests.get can end as
TransportOutcomes(texts) ==
    {NetRaise("ConnectionError", "Connection refused"),
     NetRaise("Timeout", "Read timed out")}
    \cup {NetResponse(200, t) : t \in texts}
    \cup {NetResponse(c, t) : c \in StatusCodes \ {200}, t \in {ErrKnown, OkCheckOne, NotXml}}

\* what the GET of a command method can end as
CommandOutcomes(texts) ==
    {NetRaise("ConnectionError", "Connection refused"), NetResponse(500, NotXml)}
    \cup {NetResponse(200, t) : t \in texts}

\* most host elements a getHosts response carries
MaxHosts == 2

DomainNames == {<<"example", "com">>, <<"shop", "example", "co", "uk">>}

HostElem(id, name, type, address, mxpref, ttl) ==
    Elem("host", << <<"HostId", id>>, <<"Name", name>>, <<"Type", type>>,
                    <<"Address", address>>, <<"MXPref", mxpref>>, <<"TTL", ttl>>,
                    <<"IsActive", "true">> >>, <<>>, "")

\* the host records of the domain, in the order the service lists them
HostPool(n) ==
    CASE n = 1 -> HostElem("101", "www", "A", "10.0.0.1", "10", "1800")
      [] n = 2 -> HostElem("102", "mail", "MX", "mail.example.com", "20", "3600")
      [] OTHER -> HostElem("103", "@", "A", "10.0.0.2", "10", "1800")

OkHosts(n) ==
    XmlText(TRUE, OkEnvelope("namecheap.domains.dns.getHosts",
        << Elem("DomainDNSGetHostsResult",
                << <<"Domain", "example.com">>, <<"EmailType", "FWD">>,
                   <<"IsUsingOurDNS", "true">> >>,
                [i \in 1..n |-> HostPool(i)], "") >>))

GetHostsTexts ==
    {OkHosts(n) : n \in 0..MaxHosts} \cup {ErrKnown, ErrUnlisted, OkEmptyCommandResponse}

OkSetHosts ==
    XmlText(TRUE, OkEnvelope("namecheap.domains.dns.setHosts",
        << Elem("DomainDNSSetHostsResult",
                << <<"Domain", "example.com">>, <<"IsSuccess", "true">> >>, <<>>, "") >>))

SetHostsTexts == {OkSetHosts, ErrKnown, OkEmptyCommandResponse}

\* host lists a caller passes to set_hosts: none, one record, an MX record
\* next to a record that names only its address, an entry that is no mapping
HostLists ==
    {List(<<>>),
     List(<< new_record("www", "A", "10.0.0.1", 1800) >>),
     List(<< SetItem(new_record("mail", "mx", "mail.example.com", 3600), "MXPref", Str("20")),
             Dict(<< <<"Address", Str("10.0.0.2")>>, <<"TTL", Str("30")>> >>) >>),
     List(<< Str("www") >>)}

\* a DomainCheckResult as the service sends it, premium attributes included
PremiumCheckResult(domain, available, is_premium, price) ==
    Elem("DomainCheckResult",
         << <<"Domain", domain>>, <<"Available", available>>,
            <<"IsPremiumName", is_premium>>, <<"PremiumRegistrationPrice", price>>,
            <<"IcannFee", "0">> >>, <<>>, "")

\* the results of a check, in the order the service lists them
CheckResultPool(n) ==
    CASE n = 1 -> PremiumCheckResult("example.com", "false", "false", "0")
      [] n = 2 -> PremiumCheckResult("example.net", "true", "true", "12.5000")
      [] OTHER -> PremiumCheckResult("example.org", "true", "false", "n/a")

MaxResults == 2

OkCheck(n) ==
    XmlText(TRUE, OkEnvelope("namecheap.domains.check",
                             [i \in 1..n |-> CheckResultPool(i)]))

CheckTexts ==
    {OkCheckOne, ErrUnlisted, OkNoCommandResponse, OkEmptyCommandResponse}
        \cup {OkCheck(n) : n \in 0..MaxResults}

\* the list of the test "with too many domains": domain0.com .. domain50.com
TooManyDomains == [i \in 1..51 |-> <<"domain" \o IntStr(i - 1), "com">>]

\* the lists of domains a caller checks
CheckedLists ==
    {<<>>, << <<"example", "com">> >>,
     << <<"example", "com">>, <<"example", "net">> >>, TooManyDomains}

\* the numbers of nameservers a caller passes: about the limits 2 and 12
NameserverCounts == {0, 1, 2, 3, 12, 13}

\* ns1.example.com, ns2.example.com, ... in this order
NameserverLists ==
    {[i \in 1..n |-> "ns" \o IntStr(i) \o ".example.com"] : n \in NameserverCounts}

OkSetCustom ==
    XmlText(TRUE, OkEnvelope("namecheap.domains.dns.setCustom",
        << Elem("DomainDNSSetCustomResult",
                << <<"Domain", "example.com">>, <<"IsSuccess", "true">> >>, <<>>, "") >>))

PriceElem(duration, price) ==
    Elem("Price", << <<"Duration", duration>>, <<"DurationType", "YEAR">>,
                     <<"Price", price>>, <<"Currency", "USD">> >>, <<>>, "")

\* a getPricing response with the registration prices of the one TLD name
OkPricing(name, price) ==
    XmlText(TRUE, OkEnvelope("namecheap.users.getPricing",
        << Elem("UserGetPricingResult", <<>>,
             << Elem("ProductType", << <<"Name", "domains">> >>,
                  << Elem("ProductCategory", << <<"Name", "register">> >>,
                       << Elem("Product", << <<"Name", name>> >>,
                               << PriceElem("1", price), PriceElem("2", "12.5") >>,
                               "") >>, "") >>, "") >>, "") >>))

\* what a getPricing request gets back
PricingTexts ==
    {OkPricing("com", "10.98"), OkPricing("net", "8.88"), OkEmptyCommandResponse, ErrKnown}

\* a check of four names: two available under one TLD, the second of them
\* premium without a premium price, one taken, one premium with its price
OkCheckMixed ==
    XmlText(TRUE, OkEnvelope("namecheap.domains.check",
        << PremiumCheckResult("shop.com", "true", "false", "0"),
           PremiumCheckResult("example.org", "false", "false", "0"),
           PremiumCheckResult("example.net", "true", "true", "12.5000"),
           PremiumCheckResult("example.com", "true", "true", "0") >>))

\* what the check of check_with_pricing gets back
PricedCheckTexts == {OkCheckMixed, OkCheckOne, ErrKnown} \cup {OkCheck(MaxResults)}

\* the lists of domains a caller asks prices for
PricedLists ==
    {<<>>, << <<"example", "com">>, <<"example", "net">> >>,
     << <<"shop", "com">>, <<"example", "org">>, <<"example", "net">>,
        <<"example", "com">> >>}

\* keyword arguments a caller adds to transfer.create
KwargSets ==
    {EmptyDict,
     Dict(<< <<"AddFreeWhoisguard", Str("yes")>> >>),
     Dict(<< <<"Command", Str("namecheap.users.getBalances")>> >>)}

\* items as xmltodict gives them: a check result, a host, a dated entry, an
\* element with an attribute and a child of one name, an element with nothing
NormalizerItems ==
    {Dict(<< <<"@Domain", Str("example.com")>>, <<"@Available", Str("true")>>,
             <<"@IsPremiumName", Str("false")>> >>),
     Dict(<< <<"@HostId", Str("12")>>, <<"@Name", Str("www")>>,
             <<"@IsActive", Str("Yes")>> >>),
     Dict(<< <<"@Name", Str("example.com")>>, <<"@Created", Str("01/31/2025")>>,
             <<"@Available", Str("maybe")>> >>),
     Dict(<< <<"@Name", Str("www")>>, <<"Name", Str("other")>> >>),
     EmptyDict}

\* values that are no mapping: a text-only element, an empty element
Scalars == {Str("text"), None}

FieldMappings ==
    {None, Dict(<< <<"@HostId", Str("id")>> >>), Dict(<< <<"@HostId", Str("Name")>> >>),
     Dict(<< <<"Available", Str("IsActive")>> >>)}

BooleanFieldLists == {<<>>, <<"Available", "IsActive">>}

DatetimeFieldLists == {<<>>, <<"Created">>}

\* a CommandResponse mapping with x under DomainCheckResult
Wrapped(x) ==
    Dict(<< <<"@Type", Str("namecheap.domains.check")>>, <<"DomainCheckResult", x>> >>)

RawResponses ==
    {None}
        \cup {Wrapped(x) : x \in NormalizerItems \cup Scalars}
        \cup {Wrapped(List(<< x, y >>)) :
                x \in {Dict(<< <<"@Domain", Str("example.com")>>,
                               <<"@Available", Str("true")>> >>)},
                y \in {Dict(<< <<"@Domain", Str("example.net")>>,
                               <<"@Available", Str("false")>> >>), Str("text")}}

\* result keys, split at the dots: none, an element, an attribute of the
\* element, a child of an element that is not there
NormalizerKeys ==
    {<<>>, <<"DomainCheckResult">>, <<"DomainCheckResult", "@Domain">>,
     <<"Missing", "host">>}

-----------------------------------------------------------------------------
(* The calls *)

Idle == pc = "idle"

RECURSIVE LogsOf(_)
LogsOf(rs) == IF rs = <<>> THEN <<>> ELSE rs[1].logs \o LogsOf(Tail(rs))

\* a call that ends within one step, having done d
Finish(c, d) ==
    /\ pc' = "done"
    /\ call' = c
    /\ requests' = d.requests
    /\ logs' = LogsOf(d.requests)
    /\ local' = None
    /\ outcome' = d.outcome
    /\ UNCHANGED client

\* client._make_request(command, params, error_codes, context)
MakeRequestCall ==
    /\ Idle
    /\ \E command \in Commands, params \in ParamSets, error_codes \in Catalogs,
          context \in Contexts, net \in TransportOutcomes(AnyTexts) :
        Finish([method |-> "_make_request"],
               raw(make_request(client, command, params, error_codes, context, net)))

\* client.domains.dns.get_hosts(domain)
GetHostsCall ==
    /\ Idle
    /\ \E domain \in DomainNames, net \in CommandOutcomes(GetHostsTexts) :
        Finish([method |-> "domains.dns.get_hosts", domain |-> domain],
               get_hosts(client, domain, net))

\* client.domains.dns.set_hosts(domain_name, hosts)
SetHostsCall ==
    /\ Idle
    /\ \E domain_name \in DomainNames, hosts \in HostLists,
          net \in CommandOutcomes(SetHostsTexts) :
        Finish([method |-> "domains.dns.set_hosts", domain_name |-> domain_name,
                hosts |-> hosts],
               set_hosts(client, domain_name, hosts, net))

\* client.domains.check(domains)
CheckCall ==
    /\ Idle
    /\ \E domains \in CheckedLists, net \in CommandOutcomes(CheckTexts) :
        Finish([method |-> "domains.check", domains |-> domains],
               check(client, domains, net))

\* client.domains.dns.set_custom(domain_name, nameservers)
SetCustomCall ==
    /\ Idle
    /\ \E domain_name \in DomainNames, nameservers \in NameserverLists,
          net \in CommandOutcomes({OkSetCustom, ErrKnown}) :
        Finish([method |-> "domains.dns.set_custom", domain_name |-> domain_name,
                nameservers |-> nameservers],
               set_custom(client, domain_name, nameservers, net))

\* client.users.change_password(old_password, new_password)
ChangePasswordCall ==
    /\ Idle
    /\ \E old_password \in {"old-secret"}, new_password \in {"new-secret", "newer-secret"},
          net \in CommandOutcomes({OkEmptyCommandResponse, ErrKnown}) :
        Finish([method |-> "users.change_password", old_password |-> old_password,
                new_password |-> new_password],
               change_password(client, old_password, new_password, net))

\* client.domains.transfer.create(domain_name, 1, epp_code, None, **kwargs)
TransferCreateCall ==
    /\ Idle
    /\ \E domain_name \in DomainNames, epp_code \in {None, Str("EPP-1")},
          kwargs \in KwargSets, net \in CommandOutcomes({OkCheckOne, ErrKnown}) :
        Finish([method |-> "domains.transfer.create", domain_name |-> domain_name,
                kwargs |-> kwargs],
               transfer_create(client, domain_name, 1, epp_code, None, kwargs, net))

\* client.normalize_api_response(response, result_key, field_mapping,
\*                               boolean_fields, datetime_fields, return_type)
NormalizeCall ==
    /\ Idle
    /\ \E response \in RawResponses, result_key \in NormalizerKeys,
          field_mapping \in FieldMappings, boolean_fields \in BooleanFieldLists,
          datetime_fields \in DatetimeFieldLists, return_type \in {"dict", "list"} :
        Finish([method |-> "normalize_api_response", response |-> response,
                result_key |-> result_key, field_mapping |-> field_mapping,
                boolean_fields |-> boolean_fields, datetime_fields |-> datetime_fields,
                return_type |-> return_type],
               Did(<<>>, normalize_api_response(response, result_key, field_mapping,
                            boolean_fields, datetime_fields, return_type)))

\* client._normalize_item(item, field_mapping, boolean_fields, datetime_fields)
NormalizeItemCall ==
    /\ Idle
    /\ \E item \in NormalizerItems \cup Scalars, field_mapping \in FieldMappings \ {None},
          boolean_fields \in BooleanFieldLists, datetime_fields \in DatetimeFieldLists :
        Finish([method |-> "_normalize_item", item |-> item,
                field_mapping |-> field_mapping, boolean_fields |-> boolean_fields,
                datetime_fields |-> datetime_fields],
               Did(<<>>, normalize_item(item, field_mapping, boolean_fields,
                                        datetime_fields)))

\* the host records an enhanced operation reads out of get_hosts' result
records_read(g) ==
    IF g.outcome.kind = "raise" THEN g.outcome ELSE existing_records(g.outcome.value)

\* the operation goes on to its call of set_hosts with new_hosts built
ToSetHosts(c, g, new_hosts) ==
    /\ pc' = "set_hosts"
    /\ call' = c
    /\ requests' = g.requests
    /\ logs' = LogsOf(g.requests)
    /\ local' = [result |-> g.outcome.value, new_hosts |-> List(new_hosts)]
    /\ outcome' = NoOutcome
    /\ UNCHANGED client

\* update_record from the records read to its call of set_hosts
update_record_built(c, g, read, priority) ==
    IF read.kind = "raise" THEN Finish(c, Did(g.requests, read))
    ELSE ToSetHosts(c, g,
            update_record_hosts(read.value.v, c.host, c.record_type, c.value.v,
                                1800, priority))

\* update_record up to its call of set_hosts, get_hosts having ended as g
update_record(c, g, priority) == update_record_built(c, g, records_read(g), priority)

\* client.enhanced.dns.update_record(domain_name, host, record_type, value, 1800, priority)
UpdateRecordCall ==
    /\ Idle
    /\ \E domain_name \in DomainNames, host \in {"www", "mail"}, record_type \in {"A", "MX"},
          priority \in {None, IntVal(5)}, net \in CommandOutcomes(GetHostsTexts) :
        update_record([method |-> "enhanced.dns.update_record",
                       domain_name |-> domain_name, host |-> host,
                       record_type |-> record_type, value |-> Str("10.9.9.9")],
                      get_hosts(client, domain_name, net), priority)

\* delete_record going on to set_hosts with no records when the read failed
delete_record_after_failed_read(c, g, read) ==
    IF read.kind = "raise"
    THEN /\ pc' = "set_hosts"
         /\ call' = c
         /\ requests' = g.requests
         /\ logs' = LogsOf(g.requests)
         /\ local' = [result |-> List(<<>>), new_hosts |-> List(<<>>)]
         /\ outcome' = NoOutcome
         /\ UNCHANGED client
    ELSE ToSetHosts(c, g, delete_record_hosts(read.value.v, c.host, c.record_type, c.value, 1))

\* delete_record from the records read to its call of set_hosts
delete_record_built(c, g, read) ==
    IF read.kind = "raise" THEN Finish(c, Did(g.requests, read))
    ELSE ToSetHosts(c, g,
            delete_record_hosts(read.value.v, c.host, c.record_type, c.value, 1))

\* delete_record up to its call of set_hosts, get_hosts having ended as g
delete_record(c, g) == delete_record_built(c, g, records_read(g))

\* client.enhanced.dns.delete_record(domain_name, host, record_type, value)
DeleteRecordCall ==
    /\ Idle
    /\ \E domain_name \in DomainNames, host \in {"www", "mail"}, record_type \in {"A", "MX"},
          value \in {None, Str("10.0.0.1")}, net \in CommandOutcomes(GetHostsTexts) :
        delete_record([method |-> "enhanced.dns.delete_record",
                       domain_name |-> domain_name, host |-> host,
                       record_type |-> record_type, value |-> value],
                      get_hosts(client, domain_name, net))

\* set_a_records from the records read to its call of set_hosts
set_a_records_built(c, g, read) ==
    IF read.kind = "raise" THEN Finish(c, Did(g.requests, read))
    ELSE ToSetHosts(c, g, set_a_records_hosts(read.value.v, c.ip_address))

\* set_a_records up to its call of set_hosts, get_hosts having ended as g
set_a_records(c, g) == set_a_records_built(c, g, records_read(g))

\* client.enhanced.dns.set_a_records(domain_name, ip_address)
SetARecordsCall ==
    /\ Idle
    /\ \E domain_name \in DomainNames, net \in CommandOutcomes(GetHostsTexts) :
        set_a_records([method |-> "enhanced.dns.set_a_records",
                       domain_name |-> domain_name, ip_address |-> "10.9.9.9"],
                      get_hosts(client, domain_name, net))

\* the set_hosts of an enhanced operation has ended as d
AfterSetHosts(d) ==
    /\ pc' = "done"
    /\ requests' = requests \o d.requests
    /\ logs' = logs \o LogsOf(d.requests)
    /\ outcome' = d.outcome
    /\ UNCHANGED <<client, call, local>>

\* the second half of an enhanced DNS operation: set_hosts(domain_name, new_hosts)
SetHostsStep ==
    /\ pc = "set_hosts"
    /\ \E net \in CommandOutcomes(SetHostsTexts) :
        AfterSetHosts(set_hosts(client, call.domain_name, local.new_hosts, net))

\* check_with_pricing after its check and the lookups made so far: it goes
\* on to the next of the TLDs tlds, or builds its result when none is left
PricingGoesOn(c, rs, lg, domain_results, tlds, pricing_info) ==
    /\ call' = c
    /\ requests' = rs
    /\ UNCHANGED client
    /\ IF tlds = {}
       THEN /\ pc' = "done"
            /\ logs' = lg \o result_logs(client, domain_results, pricing_info, 1)
            /\ local' = [domain_results |-> domain_results, tlds |-> tlds,
                         pricing_info |-> pricing_info]
            /\ outcome' = Return(enhanced_result(domain_results, pricing_info))
       ELSE /\ pc' = "pricing"
            /\ logs' = lg
            /\ local' = [domain_results |-> domain_results, tlds |-> tlds,
                         pricing_info |-> pricing_info]
            /\ outcome' = NoOutcome

\* check_with_pricing up to its first lookup, check having ended as k
checked(c, k) ==
    IF k.outcome.kind = "raise" THEN Finish(c, k)
    ELSE PricingGoesOn(c, k.requests, LogsOf(k.requests), k.outcome.value,
                       available_tlds(k.outcome.value), EmptyDict)

\* client.enhanced.domains.check_with_pricing(domains), up to its first lookup
CheckWithPricingCall ==
    /\ Idle
    /\ \E domains \in PricedLists, net \in CommandOutcomes(PricedCheckTexts) :
        checked([method |-> "enhanced.domains.check_with_pricing", domains |-> domains],
                check(client, domains, net))

\* check_with_pricing after the round d of the loop for tld_name
looked_up(tld_name, d) ==
    IF d.escaped.kind = "raise"
    THEN /\ pc' = "done"
         /\ requests' = requests \o d.requests
         /\ logs' = logs \o LogsOf(d.requests) \o d.logs
         /\ outcome' = d.escaped
         /\ UNCHANGED <<client, call, local>>
    ELSE PricingGoesOn(call, requests \o d.requests,
                       logs \o LogsOf(d.requests) \o d.logs, local.domain_results,
                       local.tlds \ {tld_name},
                       priced(local.pricing_info, tld_name, d.price))

\* one round of the loop of _get_tld_pricing: tlds is a set, so any of the
\* TLDs still to look up may be the next
PricingStep ==
    /\ pc = "pricing"
    /\ \E tld_name \in local.tlds, net \in CommandOutcomes(PricingTexts) :
        looked_up(tld_name, lookup(client, tld_name, net))

\* the call has returned or raised: the caller may make its next call
NextCall ==
    /\ pc = "done"
    /\ pc' = "idle"
    /\ call' = None
    /\ requests' = <<>>
    /\ logs' = <<>>
    /\ local' = None
    /\ outcome' = NoOutcome
    /\ UNCHANGED client

Init ==
    /\ client \in Clients
    /\ pc = "idle"
    /\ call = None
    /\ requests = <<>>
    /\ logs = <<>>
    /\ local = None
    /\ outcome = NoOutcome

Next ==
    \/ MakeRequestCall
    \/ GetHostsCall
    \/ SetHostsCall
    \/ CheckCall
    \/ SetCustomCall
    \/ ChangePasswordCall
    \/ CheckWithPricingCall
    \/ PricingStep
    \/ TransferCreateCall
    \/ NormalizeCall
    \/ NormalizeItemCall
    \/ UpdateRecordCall
    \/ DeleteRecordCall
    \/ SetARecordsCall
    \/ SetHostsStep
    \/ NextCall

Spec == Init /\ [][Next]_vars

-----------------------------------------------------------------------------
(* Properties of _make_request, stated for every invocation of a call *)

Reqs == 1..Len(requests)

Responded(r) == r.net.kind = "response"

Body(r) == r.net.response.text

RootAttrs(text) == {text.root.attrs[j] : j \in 1..Len(text.root.attrs)}

HasErrorStatus(text) ==
    text.root.tag = "ApiResponse" /\ <<"Status", "ERROR">> \in RootAttrs(text)

RaisedNamecheap(r) ==
    r.outcome.kind = "raise" /\ r.outcome.exc.type = "NamecheapException"

RaisedCode(r, code) == RaisedNamecheap(r) /\ r.outcome.exc.code = code

\* the status lets the body through to the parser
Parsed(r) ==
    Responded(r) /\ ~(400 <= r.net.response.status_code /\ r.net.response.status_code < 600)

\* the exception comes from the Status="ERROR" branch of the parser
ApiError(r) ==
    /\ Parsed(r) /\ Body(r).wf /\ HasErrorStatus(Body(r))
    /\ RaisedNamecheap(r) /\ r.outcome.exc.code # "PARSE_ERROR"

\* C1: every response whose root Status is ERROR makes _make_request raise a
\* NamecheapException and return nothing, whatever the shape of Errors and
\* whether or not a catalog or a context is supplied.
C1_ErrorStatusAlwaysRaises ==
    \A i \in Reqs :
        (Responded(requests[i]) /\ HasErrorStatus(Body(requests[i])))
            => RaisedNamecheap(requests[i])

\* an ERROR response with an empty Errors element, no catalog and no context
\* given, has been answered by an exception
C1_Witness ==
    \E i \in Reqs :
        /\ requests[i].net = NetResponse(200, ErrEmptyErrors)
        /\ requests[i].error_codes = None /\ requests[i].context = None
        /\ RaisedNamecheap(requests[i])

\* the catalog entry's string with each "{key}" token of a context key
\* replaced, all at once, by str(context[key]); other atoms stay as they are
RECURSIVE Substituted(_, _)
Substituted(s, context) ==
    IF s = <<>> THEN <<>>
    ELSE (IF Truthy(context)
             /\ \E j \in 1..Len(context.v) : Head(s) = Placeholder(context.v[j][1])
          THEN str(context.v[CHOOSE j \in 1..Len(context.v) :
                                Head(s) = Placeholder(context.v[j][1])][2])
          ELSE <<Head(s)>>)
         \o Substituted(Tail(s), context)

EntryText(error_codes, code, field, context) ==
    Text(Substituted(Get(Item(error_codes, code), field, Text(<<>>)).v, context))

\* C3: for a code absent from the supplied catalog, explanation and fix come
\* from the catalog's own UNKNOWN_ERROR entry whenever it has one.
C3_UnlistedCodeFallsBackToUnknownEntry ==
    \A i \in Reqs :
        LET r == requests[i]
        IN (/\ ApiError(r)
            /\ Truthy(r.error_codes)
            /\ ~HasKey(r.error_codes, r.outcome.exc.code)
            /\ HasKey(r.error_codes, "UNKNOWN_ERROR"))
           => /\ r.outcome.exc.explanation =
                    EntryText(r.error_codes, "UNKNOWN_ERROR", "explanation", r.context)
              /\ r.outcome.exc.fix =
                    EntryText(r.error_codes, "UNKNOWN_ERROR", "fix", r.context)

\* C4: for a code present in the supplied catalog, explanation and fix are
\* the catalog entry's strings with every "{key}" token replaced by
\* str(context[key]); tokens of no context key stay verbatim, and the lookup
\* raises nothing of its own.
C4_ListedCodeGetsEntryWithTokensReplaced ==
    \A i \in Reqs :
        LET r == requests[i]
        IN (/\ ApiError(r)
            /\ Truthy(r.error_codes)
            /\ HasKey(r.error_codes, r.outcome.exc.code))
           => /\ r.outcome.exc.explanation =
                    EntryText(r.error_codes, r.outcome.exc.code, "explanation", r.context)
              /\ r.outcome.exc.fix =
                    EntryText(r.error_codes, r.outcome.exc.code, "fix", r.context)

\* tests.py test_error_response: the message the exception must carry
INVALID_KEY_DOCUMENTED ==
    INVALID_KEY_MESSAGE
        \o " - Please verify your API key and ensure API access is enabled at "
        \o "https://ap.www.namecheap.com/settings/tools/apiaccess/"

\* C5: an ERROR response with error 1011102 and the invalid-API-key message,
\* well-formed or not, raises a NamecheapException with code "1011102" whose
\* message carries the remediation URL.
C5_InvalidKeyResponseRaises1011102 ==
    \A i \in Reqs :
        (Parsed(requests[i]) /\ Body(requests[i]) \in {ErrInvalidKey, ErrInvalidKeyMalformed})
            => /\ RaisedCode(requests[i], "1011102")
               /\ requests[i].outcome.exc.message = INVALID_KEY_DOCUMENTED

\* the first Error element of an ERROR envelope, when there is one
ErrorsElems(text) ==
    {text.root.kids[j] : j \in {k \in 1..Len(text.root.kids) : text.root.kids[k].tag = "Errors"}}

FirstErrorLacksNumber(text) ==
    \E e \in ErrorsElems(text) :
        /\ Len(e.kids) > 0
        /\ e.kids[1].tag = "Error"
        /\ \A j \in 1..Len(e.kids[1].attrs) : e.kids[1].attrs[j][1] # "Number"

\* C6: every exception _make_request raises has a non-empty code and a
\* non-empty message, and the code is UNKNOWN_ERROR when the first error
\* entry of an ERROR response has no Number.
C6_RaisedErrorsCarryCodeAndMessage ==
    \A i \in Reqs :
        LET r == requests[i]
        IN /\ RaisedNamecheap(r)
                => (r.outcome.exc.code # "" /\ r.outcome.exc.message # "")
           /\ (Parsed(r) /\ Body(r).wf /\ HasErrorStatus(Body(r))
                    /\ FirstErrorLacksNumber(Body(r)))
                => RaisedCode(r, "UNKNOWN_ERROR")

TransportFailed(r) == r.net.kind = "raise"

Unreadable(text) ==
    \/ ~text.wf
    \/ text.root.tag # "ApiResponse"
    \/ \A j \in 1..Len(text.root.attrs) : text.root.attrs[j][1] # "Status"

\* C8: a body that is no XML, or that cannot be read as an API envelope,
\* raises a NamecheapException with code PARSE_ERROR that carries the raw
\* text; no exception of the parser's own reaches the caller.
C8_UnreadableBodyIsParseError ==
    \A i \in Reqs :
        LET r == requests[i]
        IN /\ (Parsed(r) /\ Unreadable(Body(r)))
                => (RaisedCode(r, "PARSE_ERROR") /\ r.outcome.exc.raw_response = Body(r))
           /\ r.outcome.kind = "raise" => r.outcome.exc.type = "NamecheapException"

\* C10: the query of every GET carries ApiUser, ApiKey, UserName and ClientIp
\* as fixed at construction, Command equal to the command argument and every
\* caller parameter, and goes to the base URL chosen at construction.
C10_QueryCarriesCredentialsAndCommand ==
    \A i \in Reqs :
        LET r == requests[i]
        IN /\ r.url = client.base_url
           /\ Get(r.query, "ApiUser", None) = Str(client.api_user)
           /\ Get(r.query, "ApiKey", None) = Str(client.api_key)
           /\ Get(r.query, "UserName", None) = Str(client.username)
           /\ Get(r.query, "ClientIp", None) = Str(client.client_ip)
           /\ Get(r.query, "Command", None) = Str(r.command)
           /\ Truthy(r.params) =>
                \A k \in Keys(r.params) : Get(r.query, k, None) = Item(r.params, k)

-----------------------------------------------------------------------------
(* Properties of the enhanced DNS operations and of the calls as a whole *)

DirectMethods ==
    {"_make_request", "domains.dns.get_hosts", "domains.dns.set_hosts",
     "domains.check", "domains.transfer.create"}

EnhancedDnsMethods ==
    {"enhanced.dns.update_record", "enhanced.dns.delete_record",
     "enhanced.dns.set_a_records"}

\* the enhanced operation has built the list it passes to set_hosts
BuiltHosts ==
    pc \in {"set_hosts", "done"} /\ call.method \in EnhancedDnsMethods /\ local # None

\* the record is one the operation in progress is to replace or remove
Targeted(host_record) ==
    CASE call.method = "enhanced.dns.update_record" ->
            /\ Get(host_record, "Name", None) = Str(call.host)
            /\ Get(host_record, "Type", None) = Str(call.record_type)
      [] call.method = "enhanced.dns.delete_record" ->
            /\ Get(host_record, "Name", None) = Str(call.host)
            /\ Get(host_record, "Type", None) = Str(call.record_type)
            /\ (call.value = None \/ Get(host_record, "Address", None) = call.value)
      [] OTHER ->
            /\ Get(host_record, "Name", None) \in {Str("@"), Str("www")}
            /\ Get(host_record, "Type", None) = Str("A")

SameRecord(a, b) ==
    \A k \in {"Name", "Type", "Address"} : Get(a, k, None) = Get(b, k, None)

\* C2: the list an enhanced DNS operation passes to set_hosts holds every
\* record get_hosts returned that the operation does not target.
C2_UntargetedRecordsArePreserved ==
    BuiltHosts =>
        \A i \in 1..Len(local.result.v) :
            ~Targeted(local.result.v[i]) =>
                \E j \in 1..Len(local.new_hosts.v) :
                    SameRecord(local.new_hosts.v[j], local.result.v[i])

\* no request of the call repeats an earlier request of it that failed
NoReissue ==
    \A i, j \in Reqs :
        (i < j /\ requests[i].outcome.kind = "raise")
            => (requests[j].command # requests[i].command
                    \/ requests[j].params # requests[i].params)

-----------------------------------------------------------------------------
(* Properties of what the command methods return *)

CommandMethods == (DirectMethods \ {"_make_request"}) \cup EnhancedDnsMethods

\* the result keys the command methods name, and none
ResultKeys ==
    {<<>>, <<"DomainCheckResult">>, <<"DomainDNSGetHostsResult", "host">>,
     <<"DomainDNSGetHostsResult">>, <<"DomainDNSSetHostsResult">>}

\* the call has returned what its last _make_request returned, having sent one
ReturnedAfterRequest ==
    /\ pc = "done" /\ call.method \in CommandMethods
    /\ Len(requests) >= 1 /\ outcome.kind = "return"

\* C11: what a command method returns on success is the output of the
\* normalizer applied to the parser's result, never the parser's mapping itself.
C11_ReturnsNormalizerOutput ==
    ReturnedAfterRequest =>
        \E result_key \in ResultKeys, return_type \in {"list", "dict"} :
            outcome = normalize_api_response(requests[Len(requests)].outcome.value,
                          result_key, None, <<>>, <<>>, return_type)

-----------------------------------------------------------------------------
(* Properties of the parser on OK envelopes *)

HasOkStatus(text) ==
    text.root.tag = "ApiResponse" /\ <<"Status", "OK">> \in RootAttrs(text)

\* the CommandResponse elements of the envelope
CommandResponseElems(text) ==
    {text.root.kids[j] :
        j \in {k \in 1..Len(text.root.kids) : text.root.kids[k].tag = "CommandResponse"}}

IsEmptyElem(e) == e.attrs = <<>> /\ e.kids = <<>> /\ e.text = ""

\* the mapping the claim has the parser return for the envelope
CommandResponseSubtree(text) ==
    IF \E e \in CommandResponseElems(text) : ~IsEmptyElem(e)
    THEN LET e == CHOOSE x \in CommandResponseElems(text) : ~IsEmptyElem(x)
         IN element_value(e, AttrItems(e), 1)
    ELSE EmptyDict

\* C12: for every well-formed envelope with Status OK the parser returns
\* exactly the CommandResponse subtree, and an empty mapping when the
\* CommandResponse element is absent or empty.
C12_OkEnvelopeGivesCommandResponse ==
    \A i \in Reqs :
        (Parsed(requests[i]) /\ Body(requests[i]).wf /\ HasOkStatus(Body(requests[i])))
            => requests[i].outcome = Return(CommandResponseSubtree(Body(requests[i])))

-----------------------------------------------------------------------------
(* Properties of the normalizer *)

NormalizeDone == pc = "done" /\ call.method = "normalize_api_response"

RECURSIVE Walk(_, _, _)
\* the value the path leads to through the mappings of data, from segment i on
Walk(data, path, i) ==
    IF i > Len(path) THEN [found |-> TRUE, value |-> data]
    ELSE IF data.t = "dict" /\ HasKey(data, path[i])
         THEN Walk(Item(data, path[i]), path, i + 1)
         ELSE [found |-> FALSE]

Resolved == Walk(call.response, call.result_key, 1)

ReturnedList == outcome.kind = "return" /\ outcome.value.t = "list"

\* C13: in list mode normalize_api_response always returns a list, of exactly
\* one element when the value at result_key is a single scalar or mapping (an
\* empty mapping included) and empty when a path segment is missing; in
\* object mode a missing path segment yields an empty mapping.
C13_ListModeWrapsSingleValue ==
    (NormalizeDone /\ call.response # None) =>
        /\ call.return_type = "list" => ReturnedList
        /\ (call.return_type = "list" /\ Resolved.found
                /\ Resolved.value.t \notin {"list", "none"})
            => (ReturnedList /\ Len(outcome.value.v) = 1)
        /\ (call.return_type = "list" /\ ~Resolved.found) => outcome = Return(List(<<>>))
        /\ (call.return_type = "dict" /\ ~Resolved.found) => outcome = Return(EmptyDict)

\* C14: normalize_api_response never raises, whatever the raw envelope (its
\* path values and list items may be scalars, None or lists) and whatever the
\* normalization it is asked for.
C14_NormalizerNeverRaises == NormalizeDone => outcome.kind = "return"

NormalizeItemDone == pc = "done" /\ call.method = "_normalize_item"

\* C15: the normalized record has exactly one entry per field of the input
\* item, in the order of the input: none is dropped, none is moved.
C15_OneEntryPerInputField ==
    (NormalizeItemDone /\ call.item.t = "dict") =>
        /\ outcome.kind = "return"
        /\ Len(outcome.value.v) = Len(call.item.v)
        /\ \A i \in 1..Len(call.item.v) :
                outcome.value.v[i][1] = clean_key(call.item.v[i][1], call.field_mapping)

\* the value is one a conversion of _normalize_item has produced
IsCoerced(value) == value.t \in {"bool", "datetime"}

\* no later field of the record is stored under the name field i is stored under
KeepsItsName(record, field_mapping, i) ==
    \A j \in 1..Len(record.v) :
        j > i => clean_key(record.v[j][1], field_mapping)
                    # clean_key(record.v[i][1], field_mapping)

\* every converted value of the record is found again, as it is, in again
SameCoerced(record, field_mapping, again) ==
    /\ again.kind = "return"
    /\ \A i \in 1..Len(record.v) :
            (IsCoerced(record.v[i][2]) /\ KeepsItsName(record, field_mapping, i))
                => Item(again.value, clean_key(record.v[i][1], field_mapping))
                        = record.v[i][2]

\* C16: _normalize_item applied, with the same boolean_fields and
\* datetime_fields, to a record it has returned leaves every boolean and
\* every parsed datetime of the record as it is.
C16_CoercionIsIdempotent ==
    (NormalizeItemDone /\ outcome.kind = "return") =>
        \A field_mapping \in FieldMappings \ {None} :
            SameCoerced(outcome.value, field_mapping,
                normalize_item(outcome.value, field_mapping,
                               call.boolean_fields, call.datetime_fields))

\* a record with a boolean made of "Yes" under an Is-name has been returned
C16_Witness ==
    /\ NormalizeItemDone /\ outcome.kind = "return"
    /\ Get(call.item, "@IsActive", None) = Str("Yes")
    /\ Get(outcome.value, "IsActive", None) = Bool(TRUE)

-----------------------------------------------------------------------------
(* Properties of domains.check and of get_hosts *)

\* the value of attribute name of element e, None when e has none
AttrOf(e, name) ==
    IF \E j \in 1..Len(e.attrs) : e.attrs[j][1] = name
    THEN Str(e.attrs[CHOOSE j \in 1..Len(e.attrs) : e.attrs[j][1] = name][2])
    ELSE None

IsTag(tag, e) == e.tag = tag

RECURSIVE Children(_, _, _)
\* the elements path leads to from element e, in document order
Children(e, path, i) ==
    IF i > Len(path) THEN << e >>
    ELSE LET next == SelectSeq(e.kids, LAMBDA k : IsTag(path[i], k))
         IN IF next = <<>> THEN <<>>
            ELSE IF i = Len(path) THEN next
                 ELSE Children(next[1], path, i + 1)

\* the one _make_request of the call was answered by an OK envelope
AnsweredOk(method) ==
    /\ pc = "done" /\ call.method = method /\ Len(requests) = 1
    /\ Parsed(requests[1]) /\ Body(requests[1]).wf /\ HasOkStatus(Body(requests[1]))

CheckResults == Children(Body(requests[1]).root, <<"CommandResponse", "DomainCheckResult">>, 1)

\* the text of a boolean attribute as a boolean
AsBool(text) == IF text = None THEN None ELSE Bool(text = Str("true"))

\* record is the normalized form of the DomainCheckResult element e
IsCheckRecord(record, e) ==
    /\ record.t = "dict"
    /\ Get(record, "Domain", None) = AttrOf(e, "Domain")
    /\ Get(record, "Available", None) = AsBool(AttrOf(e, "Available"))
    /\ Get(record, "IsPremiumName", None) = AsBool(AttrOf(e, "IsPremiumName"))

IsNumber(value) == value.t \in {"int", "float"}

PremiumPriceFields == {"PremiumRegistrationPrice", "IcannFee"}

\* C18: in every record domains.check returns the premium-price fields are
\* numbers (0.0 when absent or unparsable), never strings, and the boolean
\* attributes are booleans.
C18_PremiumPricesAreNumeric ==
    (AnsweredOk("domains.check") /\ ReturnedList) =>
        \A i \in 1..Len(outcome.value.v) :
            /\ \A field \in PremiumPriceFields :
                    /\ HasKey(outcome.value.v[i], field)
                    /\ IsNumber(Item(outcome.value.v[i], field))
            /\ \A field \in {"Available", "IsPremiumName"} :
                    HasKey(outcome.value.v[i], field)
                        => Item(outcome.value.v[i], field).t = "bool"

HostsResults == Children(Body(requests[1]).root, <<"CommandResponse", "DomainDNSGetHostsResult">>, 1)

HostElems ==
    Children(Body(requests[1]).root, <<"CommandResponse", "DomainDNSGetHostsResult", "host">>, 1)

\* the host records in what get_hosts returned: the list itself, or the list
\* under host of the mapping under DomainDNSGetHostsResult
HostRecords(value) ==
    IF value.t = "list" THEN value
    ELSE Get(Get(value, "DomainDNSGetHostsResult", EmptyDict), "host", List(<<>>))

\* the mappings of what get_hosts returned that may carry the parent's attributes
ParentRecords(value) ==
    IF value.t # "dict" THEN {}
    ELSE {value} \cup {x \in {Get(value, "DomainDNSGetHostsResult", None)} : x.t = "dict"}

\* C19: for a get-hosts response with n host elements get_hosts yields n host
\* records in the order of the response, each with the Name, Type, Address
\* and TTL of its element, and exposes the IsUsingOurDNS attribute of the
\* parent element as a boolean.
C19_GetHostsYieldsHostsAndParentFlag ==
    (AnsweredOk("domains.dns.get_hosts") /\ HostsResults # <<>>) =>
        /\ outcome.kind = "return"
        /\ Len(HostRecords(outcome.value).v) = Len(HostElems)
        /\ \A i \in 1..Len(HostElems) : \A field \in {"Name", "Type", "Address", "TTL"} :
                Get(HostRecords(outcome.value).v[i], field, None) = AttrOf(HostElems[i], field)
        /\ \E parent \in ParentRecords(outcome.value) :
                Get(parent, "IsUsingOurDNS", None) = AsBool(AttrOf(HostsResults[1], "IsUsingOurDNS"))

\* C20: domains.check called with more than 50 domains raises ValueError
\* before any request is sent.
C20_TooManyDomainsIsValueError ==
    (pc = "done" /\ call.method = "domains.check" /\ Len(call.domains) > 50) =>
        /\ requests = <<>>
        /\ outcome.kind = "raise" /\ outcome.exc.type = "ValueError"

-----------------------------------------------------------------------------
(* Properties of set_hosts *)

SetHostsDone == pc = "done" /\ call.method = "domains.dns.set_hosts"

\* the record types the service documents
RecordTypes == {"A", "AAAA", "ALIAS", "CAA", "CNAME", "MX", "MXE", "NS", "TXT", "URL", "URL301", "FRAME"}

\* the TTL values of the model that lie outside 60..86400
OutOfRangeTTLs == {Str("30")}

\* the record is one the claim has set_hosts refuse
IsInvalidHost(host) ==
    /\ host.t = "dict"
    /\ \/ ~HasKey(host, "Name") /\ ~HasKey(host, "HostName")
       \/ ~HasKey(host, "Type") /\ ~HasKey(host, "RecordType")
       \/ ~HasKey(host, "Address")
       \/ HasKey(host, "Type") /\ upper(Item(host, "Type").v) \notin RecordTypes
       \/ Get(host, "TTL", None) \in OutOfRangeTTLs

\* C21: set_hosts raises ValueError, before any request is sent, whenever a
\* host record has no name (neither Name nor HostName), no type, no address,
\* a record type that is not valid, or a TTL outside 60..86400.
C21_InvalidHostIsValueError ==
    (SetHostsDone /\ \E i \in 1..Len(call.hosts.v) : IsInvalidHost(call.hosts.v[i])) =>
        /\ requests = <<>>
        /\ outcome.kind = "raise" /\ outcome.exc.type = "ValueError"

\* the parameters of a host record and the keys of the record they are read from
HostFields ==
    {<<"HostName", "Name">>, <<"RecordType", "Type">>, <<"Address", "Address">>,
     <<"TTL", "TTL">>}

HostParamNames == {"HostName", "RecordType", "Address", "TTL", "MXPref"}

SetHostsSent == SetHostsDone /\ Len(requests) = 1

IsMxRecord(host) == HasKey(host, "Type") /\ upper(Item(host, "Type").v) = "MX"

-----------------------------------------------------------------------------
(* Properties of set_custom *)

SetCustomDone == pc = "done" /\ call.method = "domains.dns.set_custom"

\* C22: set_custom raises ValueError without any request when fewer than 2
\* or more than 12 nameservers are given; for 2..12 nameservers it sends
\* Nameserver1..Nameservern in the order of the input.
C22_NameserverCountIsChecked ==
    SetCustomDone =>
        IF Len(call.nameservers) < 2 \/ Len(call.nameservers) > 12
        THEN /\ requests = <<>>
             /\ outcome.kind = "raise" /\ outcome.exc.type = "ValueError"
        ELSE /\ Len(requests) = 1
             /\ \A i \in 1..Len(call.nameservers) :
                    Get(requests[1].query, "Nameserver" \o IntStr(i), None)
                        = Str(call.nameservers[i])
             /\ \A i \in {0} \cup {Len(call.nameservers) + 1} :
                    ~HasKey(requests[1].query, "Nameserver" \o IntStr(i))

\* twelve nameservers have been sent, the twelfth as Nameserver12
C22_Witness ==
    /\ SetCustomDone /\ Len(call.nameservers) = 12 /\ Len(requests) = 1
    /\ Get(requests[1].query, "Nameserver12", None) = Str("ns12.example.com")

-----------------------------------------------------------------------------
(* Properties of the splitting of domain names *)

\* the public suffixes of the names of the model, as label sequences
PublicSuffixes == {<<"com">>, <<"net">>, <<"uk">>, <<"co", "uk">>}

\* the last n labels
LastLabels(labels, n) == SubSeq(labels, Len(labels) - n + 1, Len(labels))

\* the length of the longest public suffix the name ends in
SuffixLength(labels) ==
    CHOOSE n \in 1..(Len(labels) - 1) :
        /\ LastLabels(labels, n) \in PublicSuffixes
        /\ \A k \in (n + 1)..(Len(labels) - 1) : LastLabels(labels, k) \notin PublicSuffixes

\* the methods that split the name of the domain they are called with
SplittingMethods ==
    {"domains.dns.get_hosts", "domains.dns.set_hosts", "domains.dns.set_custom"}
        \cup EnhancedDnsMethods

CalledDomain == IF call.method = "domains.dns.get_hosts" THEN call.domain ELSE call.domain_name

\* C23: a command method that splits a domain name into registrable label
\* and suffix does so by the public-suffix rules: foo.bar.co.uk gives label
\* bar and suffix co.uk, never foo and bar.co.uk.
C23_SplitFollowsPublicSuffix ==
    (pc # "idle" /\ call.method \in SplittingMethods) =>
        \A i \in Reqs :
            /\ Get(requests[i].query, "SLD", None)
                = Str(CalledDomain[Len(CalledDomain) - SuffixLength(CalledDomain)])
            /\ Get(requests[i].query, "TLD", None)
                = Str(Dotted(LastLabels(CalledDomain, SuffixLength(CalledDomain))))

-----------------------------------------------------------------------------
(* Properties of the boolean coercion *)

TrueTexts == {"true", "yes", "enabled", "1"}

FalseTexts == {"false", "no", "disabled", "0"}

\* the value the claim has a string stored under name become
CoercedAsClaimed(name, value, boolean_fields) ==
    IF StartsWithIs(name) \/ name \in Range(boolean_fields)
    THEN (IF lower(value.v) \in TrueTexts THEN Bool(TRUE)
          ELSE IF lower(value.v) \in FalseTexts THEN Bool(FALSE)
          ELSE value)
    ELSE IF lower(value.v) \in {"true", "false"} THEN Bool(lower(value.v) = "true")
         ELSE value

\* C26: under a key that starts with "Is" or is listed in boolean_fields a
\* string equal, whatever its case, to true/yes/enabled/1 becomes True, one
\* equal to false/no/disabled/0 becomes False, and any other string is passed
\* through; under any other key only the texts true and false are coerced.
C26_BooleanCoercionTable ==
    (NormalizeItemDone /\ outcome.kind = "return" /\ call.datetime_fields = <<>>) =>
        \A i \in 1..Len(call.item.v) :
            (IsStr(call.item.v[i][2]) /\ KeepsItsName(call.item, call.field_mapping, i))
                => Item(outcome.value, clean_key(call.item.v[i][1], call.field_mapping))
                    = CoercedAsClaimed(clean_key(call.item.v[i][1], call.field_mapping),
                                       call.item.v[i][2], call.boolean_fields)

-----------------------------------------------------------------------------
(* Properties of the order of read and write in the enhanced DNS operations *)

EnhancedDnsCall == pc # "idle" /\ call.method \in EnhancedDnsMethods

\* how the get_hosts of the operation ended, its request having been made
GetHostsOutcome ==
    normalized(requests[1], <<"DomainDNSGetHostsResult", "host">>, "list").outcome

\* C28: update_record, delete_record and set_a_records issue their setHosts
\* only after get_hosts has returned: when get_hosts raises no setHosts
\* request is ever sent and the error reaches the caller.
C28_WriteOnlyAfterRead ==
    EnhancedDnsCall =>
        /\ Len(requests) >= 1
        /\ requests[1].command = "namecheap.domains.dns.getHosts"
        /\ \A i \in Reqs : requests[i].command = "namecheap.domains.dns.setHosts"
                => (i = 2 /\ GetHostsOutcome.kind = "return")
        /\ GetHostsOutcome.kind = "raise"
                => (pc = "done" /\ Len(requests) = 1 /\ outcome = GetHostsOutcome)

\* delete_record has ended with the exception of its get_hosts, one request made
C28_Witness ==
    /\ EnhancedDnsCall /\ pc = "done" /\ call.method = "enhanced.dns.delete_record"
    /\ Len(requests) = 1 /\ requests[1].outcome.kind = "raise"
    /\ outcome = requests[1].outcome

-----------------------------------------------------------------------------
(* Properties of the log records *)

\* the API key of the client and the passwords of the call in progress
Secrets ==
    {Str(client.api_key)}
        \cup (IF pc # "idle" /\ call.method = "users.change_password"
              THEN {Str(call.old_password), Str(call.new_password)}
              ELSE {})

\* C29: no log record of the client holds the API key or a password of the
\* account in clear text, whatever the command (users.change_password with
\* OldPassword and NewPassword included), in debug mode and without it.
C29_LogsHoldNoSecret ==
    \A i \in 1..Len(logs) : \A k \in DOMAIN logs[i].data : logs[i].data[k] \notin Secrets

-----------------------------------------------------------------------------
(* Properties of check_with_pricing *)

PricingCall == pc # "idle" /\ call.method = "enhanced.domains.check_with_pricing"

\* the availability check of the call has returned its records
CheckReturned == PricingCall /\ local # None

\* the indices of the pricing lookups the call has issued
Lookups == {i \in Reqs : requests[i].command = "namecheap.users.getPricing"}

\* the suffix a pricing lookup asks the price of
LookupSuffix(i) == Get(requests[i].query, "ProductName", None)

\* the records of the availability check that report their domain available
AvailableRecords ==
    {x \in Range(local.domain_results.v) :
        x.t = "dict" /\ Get(x, "Available", None) = Bool(TRUE)}

\* the distinct suffixes among the domains reported available
AvailableSuffixes == {Str(suffix(Get(x, "Domain", None).v)) : x \in AvailableRecords}

\* C25: check_with_pricing is sequential: the availability check is the first
\* request and ends before any pricing lookup is issued; then exactly one
\* lookup is issued per distinct suffix of the domains reported available,
\* none for a suffix found only on unavailable domains and none at all when
\* the availability check fails.
C25_OneLookupPerAvailableSuffix ==
    PricingCall =>
        /\ \A i \in Reqs : requests[i].command = "namecheap.domains.check" <=> i = 1
        /\ \A i \in Reqs : i > 1 => i \in Lookups
        /\ ~CheckReturned => (pc = "done" /\ outcome.kind = "raise" /\ Lookups = {})
        /\ CheckReturned =>
            /\ \A i \in Lookups : LookupSuffix(i) \in AvailableSuffixes
            /\ \A i, j \in Lookups : LookupSuffix(i) = LookupSuffix(j) => i = j
            /\ pc = "done" => \A sfx \in AvailableSuffixes :
                                \E i \in Lookups : LookupSuffix(i) = sfx

\* four domains were checked, two of them available under one suffix and one
\* under another, one taken under a third: two lookups were issued
C25_Witness ==
    /\ CheckReturned /\ pc = "done"
    /\ Len(local.domain_results.v) = 4
    /\ AvailableSuffixes = {Str("com"), Str("net")}
    /\ Cardinality(AvailableRecords) = 3
    /\ Cardinality(Lookups) = 2


PricingReturned == CheckReturned /\ pc = "done" /\ outcome.kind = "return"

\* the records check_with_pricing has returned
PricedRecords == Item(outcome.value, "DomainCheckResult").v

\* the one-year prices the well-formed OK response text quotes for the TLD name
QuotedPrices(text, name) ==
    SelectSeq(Children(text.root,
                       <<"CommandResponse", "UserGetPricingResult", "ProductType",
                         "ProductCategory", "Product", "Price">>, 1),
              LAMBDA e : AttrOf(e, "Duration") = Str("1"))

\* the product the response text quotes prices for
QuotedProduct(text) ==
    Children(text.root, <<"CommandResponse", "UserGetPricingResult", "ProductType",
                          "ProductCategory", "Product">>, 1)

\* the price the lookup i has found, 0.0 when it has found none
LookedUpPrice(i) ==
    IF /\ requests[i].outcome.kind = "return"
       /\ QuotedProduct(Body(requests[i])) # <<>>
       /\ AttrOf(QuotedProduct(Body(requests[i]))[1], "Name") = LookupSuffix(i)
       /\ QuotedPrices(Body(requests[i]), LookupSuffix(i)) # <<>>
    THEN to_float(AttrOf(QuotedPrices(Body(requests[i]), LookupSuffix(i))[1], "Price")).value
    ELSE Float(0)

\* the price looked up for the suffix of domain, 0.0 when none was
SuffixPrice(domain) ==
    IF \E i \in Lookups : LookupSuffix(i) = Str(suffix(domain))
    THEN LookedUpPrice(CHOOSE i \in Lookups : LookupSuffix(i) = Str(suffix(domain)))
    ELSE Float(0)

\* the premium price an availability record carries, 0.0 when it carries none
PremiumOf(record) ==
    IF to_float(Get(record, "PremiumRegistrationPrice", Str("0"))).kind = "return"
    THEN to_float(Get(record, "PremiumRegistrationPrice", Str("0"))).value
    ELSE Float(0)

HasPremiumPrice(record) ==
    Get(record, "IsPremiumName", None) = Bool(TRUE) /\ PremiumOf(record).v > 0

\* the price the claim gives the availability record
ClaimedPrice(record) ==
    IF Get(record, "Available", None) # Bool(TRUE) THEN Float(0)
    ELSE IF HasPremiumPrice(record) THEN PremiumOf(record)
    ELSE IF SuffixPrice(Get(record, "Domain", None).v).v > 0
         THEN SuffixPrice(Get(record, "Domain", None).v)
         ELSE Float(0)

\* C30: check_with_pricing returns one record per record of the availability
\* check, in the same order and with the same Domain and Available; the Price
\* of an unavailable domain is 0.0, that of an available domain is its premium
\* price when it is premium with a positive premium price, otherwise the price
\* looked up for its suffix, otherwise 0.0.
C30_OneRecordPerCheckRecord ==
    PricingReturned =>
        /\ Len(PricedRecords) = Len(local.domain_results.v)
        /\ \A i \in 1..Len(PricedRecords) :
            /\ Get(PricedRecords[i], "Domain", None)
                    = Get(local.domain_results.v[i], "Domain", None)
            /\ Get(PricedRecords[i], "Available", None)
                    = Get(local.domain_results.v[i], "Available", None)
            /\ Get(PricedRecords[i], "Price", None)
                    = ClaimedPrice(local.domain_results.v[i])

\* four records have been returned: the first with the price looked up for
\* .com, the second unavailable, the third with its premium price although a
\* price was looked up for .net, the fourth premium without a premium price
C30_Witness ==
    /\ PricingReturned /\ Len(PricedRecords) = 4
    /\ Get(PricedRecords[1], "Price", None) = Float(109800)
    /\ Get(PricedRecords[2], "Available", None) = Bool(FALSE)
    /\ Get(PricedRecords[2], "Price", None) = Float(0)
    /\ Get(PricedRecords[3], "Price", None) = Float(125000)
    /\ SuffixPrice("example.net") = Float(88800)
    /\ Get(PricedRecords[4], "IsPremiumName", None) = Bool(TRUE)
    /\ Get(PricedRecords[4], "Price", None) = Float(109800)


\* the suffixes whose pricing lookup has failed
FailedSuffixes == {LookupSuffix(i) : i \in {j \in Lookups : requests[j].outcome.kind = "raise"}}

\* the availability record reports an available domain whose lookup has failed
LookupFailedFor(record) ==
    /\ Get(record, "Available", None) = Bool(TRUE)
    /\ Str(suffix(Get(record, "Domain", None).v)) \in FailedSuffixes

\* a failed lookup has aborted nothing: every suffix of an available domain
\* was looked up and the call has returned one record per checked domain
NothingAborted ==
    /\ \A sfx \in AvailableSuffixes : \E i \in Lookups : LookupSuffix(i) = sfx
    /\ outcome.kind = "return"
    /\ Len(PricedRecords) = Len(local.domain_results.v)

\* C24 as stated: a failed lookup for one suffix aborts neither the other
\* lookups nor the result, and every available domain whose suffix lookup
\* failed has Price 0.0.
C24_FailedLookupGivesZeroPrice ==
    (CheckReturned /\ pc = "done") =>
        /\ NothingAborted
        /\ \A i \in 1..Len(local.domain_results.v) :
                LookupFailedFor(local.domain_results.v[i])
                    => Get(PricedRecords[i], "Price", None) = Float(0)

\* C24: a failed lookup for one suffix aborts neither the other lookups nor
\* the result; an available domain whose suffix lookup failed has its premium
\* price when it is premium with a positive premium price, and Price 0.0
\* otherwise.
C24_FailedLookupKeepsPremiumPrice ==
    (CheckReturned /\ pc = "done") =>
        /\ NothingAborted
        /\ \A i \in 1..Len(local.domain_results.v) :
                LookupFailedFor(local.domain_results.v[i])
                    => Get(PricedRecords[i], "Price", None)
                            = IF HasPremiumPrice(local.domain_results.v[i])
                              THEN PremiumOf(local.domain_results.v[i])
                              ELSE Float(0)

\* the lookup for .com failed and the one for .net was made all the same: the
\* four records are returned, the .com domains with Price 0.0
C24_Witness ==
    /\ PricingReturned /\ Len(PricedRecords) = 4
    /\ FailedSuffixes = {Str("com")}
    /\ \E i \in Lookups : LookupSuffix(i) = Str("net") /\ requests[i].outcome.kind = "return"
    /\ Get(PricedRecords[1], "Price", None) = Float(0)
    /\ Get(PricedRecords[4], "Price", None) = Float(0)

====
